---- MODULE Spec2Model ----
(***************************************************************************)
(* A state-machine model of itamae's MPDU parser (src/itamae/mpdu.py).     *)
(* One call parse(f, hasFCS) is modelled as a sequence of decoding steps   *)
(* over a concrete byte buffer: the header step, the steps of the branch   *)
(* chosen by the frame type (_parsemgmt_, _parsectrl_, _parsedata_), the   *)
(* encryption step and the final step that appends fcs and returns.        *)
(*                                                                         *)
(* Representation.  A buffer is a sequence of octets (1-based here,        *)
(* 0-based in the source, so source index i is element i+1).  A struct     *)
(* format is the sequence of the widths of its fields ("BB" is <<1,1>>,    *)
(* "H" is <<2>>, "6B" is six 1s).  Fields of one or two octets are decoded *)
(* to their little-endian integer; fields of four and eight octets are     *)
(* kept as their little-endian octets, since no arithmetic is done on      *)
(* them.  The record m is a function from key names to values, with the    *)
(* keys the source stores.  An err entry is the pair <<location, message>> *)
(* with the message cut down to the fixed text the source puts before the  *)
(* formatted exception.                                                    *)
(***************************************************************************)
EXTENDS Integers, Sequences, FiniteSets, TLC

----------------------------------------------------------------------------
(* Bounds of the explored inputs *)

\* longest input buffer: a qos data frame with four addresses and fcs
MaxLen == 36

\* the most iterations of the information-element loop that are followed
\* before the loop is reported as not terminating
MaxIeIter == 32

----------------------------------------------------------------------------
(* bits.py *)

leastx(x, v) == v % (2 ^ x)

mostx(s, v) == v \div (2 ^ s)

\* a variant that shifts and does not mask
midx_nomask(s, x, v) == mostx(s, v)

midx(s, x, v) == leastx(x, mostx(s, v))

RECURSIVE BitAnd(_, _)
BitAnd(a, b) ==
    IF a = 0 \/ b = 0 THEN 0
    ELSE (a % 2) * (b % 2) + 2 * BitAnd(a \div 2, b \div 2)

RECURSIVE BitOr(_, _)
BitOr(a, b) ==
    IF a = 0 THEN b
    ELSE IF b = 0 THEN a
    ELSE (IF a % 2 = 1 \/ b % 2 = 1 THEN 1 ELSE 0) + 2 * BitOr(a \div 2, b \div 2)

bitmask_list(bm, mn) ==
    [name \in DOMAIN bm |-> IF BitAnd(bm[name], mn) = bm[name] THEN 1 ELSE 0]

----------------------------------------------------------------------------
(* Python slices and the struct module *)

Min(a, b) == IF a < b THEN a ELSE b

Max(a, b) == IF a > b THEN a ELSE b

\* b[lo:hi] for 0 <= lo, 0 <= hi
Slice(b, lo, hi) == SubSeq(b, lo + 1, Min(hi, Len(b)))

\* b[lo:]
SliceFrom(b, lo) == SubSeq(b, lo + 1, Len(b))

\* b[-n:]
Tail_(b, n) == SubSeq(b, Max(Len(b) - n, 0) + 1, Len(b))

\* b[:-n]
DropTail(b, n) == SubSeq(b, 1, Len(b) - n)

\* b[-n:-k]
TailBut(b, n, k) == SubSeq(b, Max(Len(b) - n, 0) + 1, Len(b) - k)

RECURSIVE calcsize(_)
calcsize(fmt) == IF fmt = <<>> THEN 0 ELSE Head(fmt) + calcsize(Tail(fmt))

FieldAt(b, o, w) ==
    IF w = 1 THEN b[o + 1]
    ELSE IF w = 2 THEN b[o + 1] + 256 * b[o + 2]
    ELSE SubSeq(b, o + 1, o + w)

\* struct.unpack_from(fmt, b, o) when the buffer is long enough
struct_unpack_from(fmt, b, o) ==
    [i \in 1..Len(fmt) |-> FieldAt(b, o + calcsize(SubSeq(fmt, 1, i - 1)), fmt[i])]

\* struct.unpack_from raises struct.error
struct_error(fmt, b, o) == Len(b) - o < calcsize(fmt)

\* a variant that returns the size of the read instead of the new offset
_unpack_from_size(fmt, b, o) ==
    IF struct_error(fmt, b, o) THEN [ok |-> FALSE]
    ELSE LET vs == struct_unpack_from(fmt, b, o)
         IN  [ok |-> TRUE,
              vs |-> IF Len(vs) = 1 THEN vs[1] ELSE vs,
              off |-> calcsize(fmt)]

\* the module's helper: the values (a scalar when there is one) and the new
\* offset; ok = FALSE stands for the struct.error it lets through
_unpack_from_(fmt, b, o) ==
    IF struct_error(fmt, b, o) THEN [ok |-> FALSE]
    ELSE LET vs == struct_unpack_from(fmt, b, o)
         IN  [ok |-> TRUE,
              vs |-> IF Len(vs) = 1 THEN vs[1] ELSE vs,
              off |-> o + calcsize(fmt)]

----------------------------------------------------------------------------
(* Frame fields *)

_S2F_ == [framectrl |-> <<1, 1>>,
          duration  |-> <<2>>,
          addr      |-> <<1, 1, 1, 1, 1, 1>>,
          seqctrl   |-> <<2>>,
          bactrl    |-> <<2>>,
          barctrl   |-> <<2>>,
          qos       |-> <<1, 1>>,
          htc       |-> <<4>>,
          capability |-> <<2>>,
          listenint |-> <<2>>,
          statuscode |-> <<2>>,
          aid       |-> <<2>>,
          timestamp |-> <<8>>,
          beaconint |-> <<2>>,
          reasoncode |-> <<2>>,
          algorithmno |-> <<2>>,
          authseq   |-> <<2>>,
          category  |-> <<1>>,
          action    |-> <<1>>,
          wepkeyid  |-> <<1>>,
          fcs       |-> <<4>>]

FT_MGMT == 0
FT_CTRL == 1
FT_DATA == 2
FT_RSRV == 3

ST_MGMT_TYPES == <<"assoc-req", "assoc-resp", "reassoc-req", "reassoc-resp",
                   "probe-req", "probe-resp", "timing-adv", "mgmt-rsrv-7",
                   "beacon", "atim", "disassoc", "auth", "deauth", "action",
                   "action-noack", "mgmt-rsrv-15">>

ST_MGMT_ASSOC_REQ    == 0
ST_MGMT_ASSOC_RESP   == 1
ST_MGMT_REASSOC_REQ  == 2
ST_MGMT_REASSOC_RESP == 3
ST_MGMT_PROBE_REQ    == 4
ST_MGMT_PROBE_RESP   == 5
ST_MGMT_TIMING_ADV   == 6
ST_MGMT_BEACON       == 8
ST_MGMT_DISASSOC     == 10
ST_MGMT_AUTH         == 11
ST_MGMT_DEAUTH       == 12
ST_MGMT_ACTION       == 13
ST_MGMT_ACTION_NOACK == 14

ST_CTRL_TYPES == <<"ctrl-rsrv-0", "ctrl-rsrv-1", "ctrl-rsrv-2", "ctrl-rsrv-3",
                   "ctrl-rsrv-4", "ctrl-rsrv-5", "ctrl-rsrv-6", "wrapper",
                   "block-ack-req", "block-ack", "pspoll", "rts", "cts", "ack",
                   "cfend", "cfend-cfack">>

ST_CTRL_WRAPPER       == 7
ST_CTRL_BLOCK_ACK_REQ == 8
ST_CTRL_BLOCK_ACK     == 9
ST_CTRL_PSPOLL        == 10
ST_CTRL_RTS           == 11
ST_CTRL_CTS           == 12
ST_CTRL_ACK           == 13
ST_CTRL_CFEND         == 14
ST_CTRL_CFEND_CFACK   == 15

ST_DATA_QOS_DATA         == 8
ST_DATA_QOS_CFACK_CFPOLL == 15

_FC_FLAGS_ == [td |-> 1, fd |-> 2, mf |-> 4, r |-> 8,
               pm |-> 16, md |-> 32, pf |-> 64, o |-> 128]

_fcflags_(mn) == bitmask_list(_FC_FLAGS_, mn)

_DUR_SIG_BITS_ == [b15 |-> 32768, b14 |-> 16384]

_DUR_CFP_ == 32768

\* a variant that takes the aid from the 14 low bits
_duration_aid14(v) ==
    LET field == bitmask_list(_DUR_SIG_BITS_, v)
    IN  IF field.b15 = 0 THEN [type |-> "vcs", dur |-> leastx(15, v)]
        ELSE IF field.b14 = 0 /\ v = _DUR_CFP_ THEN [type |-> "cfp"]
        ELSE IF field.b14 = 1 /\ leastx(14, v) <= 2007
             THEN [type |-> "aid", aid |-> leastx(14, v)]
        ELSE [type |-> "None", dur |-> "rsrv"]

_duration_(v) ==
    LET field == bitmask_list(_DUR_SIG_BITS_, v)
    IN  IF field.b15 = 0 THEN [type |-> "vcs", dur |-> leastx(15, v)]
        ELSE IF field.b14 = 0 /\ v = _DUR_CFP_ THEN [type |-> "cfp"]
        ELSE IF field.b14 = 1 /\ leastx(13, v) <= 2007
             THEN [type |-> "aid", aid |-> leastx(13, v)]
        ELSE [type |-> "None", dur |-> "rsrv"]

HexDigits == <<"0", "1", "2", "3", "4", "5", "6", "7",
               "8", "9", "a", "b", "c", "d", "e", "f">>

\* a variant that formats with '{0:x}', without the leading zero
Hex02_nopad(a) ==
    IF a < 16 THEN HexDigits[a + 1]
    ELSE HexDigits[(a \div 16) + 1] \o HexDigits[(a % 16) + 1]

\* '{0:02x}'.format(a)
Hex02(a) == HexDigits[(a \div 16) + 1] \o HexDigits[(a % 16) + 1]

RECURSIVE _hwaddr_(_)
_hwaddr_(l) ==
    IF Len(l) = 0 THEN ""
    ELSE IF Len(l) = 1 THEN Hex02(l[1])
    ELSE Hex02(l[1]) \o ":" \o _hwaddr_(Tail(l))

_SEQCTRL_DIVIDER_ == 4

_seqctrl_(v) ==
    [fragno |-> leastx(_SEQCTRL_DIVIDER_, v), seqno |-> mostx(_SEQCTRL_DIVIDER_, v)]

_QOS_FIELDS_ == [eosp |-> 16, amsdu |-> 128]
_QOS_TID_END_ == 4
_QOS_ACK_POLICY_START_ == 5
_QOS_ACK_POLICY_LEN_ == 2

\* the keys 'a-msdu' and 'ack-policy' are written amsdu and ackpolicy
_qosctrl_(v) ==
    LET lsb == v[1]
        msb == v[2]
        qos == bitmask_list(_QOS_FIELDS_, lsb)
    IN  [eosp |-> qos.eosp,
         amsdu |-> qos.amsdu,
         tid |-> leastx(_QOS_TID_END_, lsb),
         ackpolicy |-> midx(_QOS_ACK_POLICY_START_, _QOS_ACK_POLICY_LEN_, lsb),
         txop |-> msb]

----------------------------------------------------------------------------
(* The state of one call of parse *)

VARIABLES
    buf,      \* the buffer parse was called with
    hasFCS,   \* the caller's flag
    f,        \* parse's f: the working buffer (buf, or buf[:-4] after line 285)
    m,        \* the record under construction; <<>> before it is created
    pc,       \* where the call is
    exc,      \* the exception that left parse, of type "none" if there is none
    ieiter,   \* iterations of the information-element loop so far
    tidx,     \* the index i of the multi-tid loops
    decoded,  \* history: the keys in the order their values were stored in m
    readfail  \* history: the _unpack_from_ of the last step raised

vars == <<buf, hasFCS, f, m, pc, exc, ieiter, tidx, decoded, readfail>>

\* dictionary update m[k] = v
Put(d, k, v) == [x \in (DOMAIN d) \cup {k} |-> IF x = k THEN v ELSE d[x]]

\* m['err'].append((loc,msg))
ErrAppend(d, loc, msg) == [d EXCEPT !["err"] = Append(@, <<loc, msg>>)]

\* a variant that puts the tags in front of the list
PresentExtend_front(d, tags) == [d EXCEPT !["present"] = tags \o @]

\* m['present'].extend(tags)
PresentExtend(d, tags) == [d EXCEPT !["present"] = @ \o tags]

SetOffset(d, o) == [d EXCEPT !["offset"] = o]

\* the MPDU properties: a missing key reads as the empty value
present_(d) == IF "present" \in DOMAIN d THEN d["present"] ELSE <<>>
offset_(d) == IF "offset" \in DOMAIN d THEN d["offset"] ELSE 0
stripped_(d) == IF "stripped" \in DOMAIN d THEN d["stripped"] ELSE 0
error_(d) == IF "err" \in DOMAIN d THEN d["err"] ELSE <<>>
type_(d) == d["framectrl"].type
subtype_(d) == d["framectrl"].subtype
flags_(d) == d["framectrl"].flags

----------------------------------------------------------------------------
(* The inputs that are explored *)

\* first octet of the frame control: version 0, every type and subtype
Fc0Vals == {4 * t + 16 * s : t \in 0..3, s \in 0..15}

\* second octet: no flag, td+fd, pf, pf+td+fd, o
Fc1Vals == {0, 3, 64, 67, 128}

\* the octets after the frame control repeat one of these patterns
Patterns == {<<0>>, <<3>>, <<6>>, <<32>>, <<255>>, <<221, 3, 0, 3, 1>>}

Frame(fc0, fc1, pat, n) ==
    [i \in 1..n |-> IF i = 1 THEN fc0
                    ELSE IF i = 2 THEN fc1
                    ELSE pat[((i - 3) % Len(pat)) + 1]]

Init ==
    /\ buf \in {Frame(fc0, fc1, pat, n) :
                  fc0 \in Fc0Vals, fc1 \in Fc1Vals, pat \in Patterns, n \in 0..MaxLen}
    /\ hasFCS \in BOOLEAN
    /\ f = buf
    /\ m = <<>>
    /\ pc = "start"
    /\ exc = [type |-> "none", msg |-> ""]
    /\ ieiter = 0
    /\ tidx = 0
    /\ decoded = <<>>
    /\ readfail = FALSE

----------------------------------------------------------------------------
(* parse: the mandatory header, lines 269-296 *)

\* where parse goes after the header: the type branch
Dispatch(d) ==
    IF type_(d) = FT_MGMT THEN "mgmt_addrs"
    ELSE IF type_(d) = FT_CTRL THEN "ctrl"
    ELSE IF type_(d) = FT_DATA THEN "data_addrs"
    ELSE "rsrv"

\* where parse goes after the type branch: the encryption step if pf is set
AfterBranch(d) == IF flags_(d).pf = 1 THEN "crypt" ELSE "finish"

\* a variant that leaves out line 282, which extends present with duration
\* and addr1
HeaderRecord_noextend(b, fcs) ==
    LET r1 == _unpack_from_(_S2F_.framectrl, b, 0)
        r2 == _unpack_from_(_S2F_.duration \o _S2F_.addr, b, r1.off)
        m0 == [framectrl |-> [vers |-> leastx(2, r1.vs[1]),
                              type |-> midx(2, 2, r1.vs[1]),
                              subtype |-> mostx(4, r1.vs[1]),
                              flags |-> _fcflags_(r1.vs[2])],
               present |-> <<"framectrl">>,
               offset |-> r2.off,
               stripped |-> 0,
               err |-> <<>>,
               duration |-> _duration_(r2.vs[1]),
               addr1 |-> _hwaddr_(SubSeq(r2.vs, 2, 7))]
    IN  IF fcs
        THEN [Put(m0, "fcs", Tail_(b, 4)) EXCEPT !["stripped"] = @ + 4]
        ELSE m0

\* the record built from framectrl, duration and addr1
HeaderRecord(b, fcs) ==
    LET r1 == _unpack_from_(_S2F_.framectrl, b, 0)
        r2 == _unpack_from_(_S2F_.duration \o _S2F_.addr, b, r1.off)
        m0 == [framectrl |-> [vers |-> leastx(2, r1.vs[1]),
                              type |-> midx(2, 2, r1.vs[1]),
                              subtype |-> mostx(4, r1.vs[1]),
                              flags |-> _fcflags_(r1.vs[2])],
               present |-> <<"framectrl", "duration", "addr1">>,
               offset |-> r2.off,
               stripped |-> 0,
               err |-> <<>>,
               duration |-> _duration_(r2.vs[1]),
               addr1 |-> _hwaddr_(SubSeq(r2.vs, 2, 7))]
    IN  IF fcs
        THEN [Put(m0, "fcs", Tail_(b, 4)) EXCEPT !["stripped"] = @ + 4]
        ELSE m0

\* the header cannot be unpacked: struct.error in the try of line 269
HeaderFails(b) ==
    \/ struct_error(_S2F_.framectrl, b, 0)
    \/ struct_error(_S2F_.duration \o _S2F_.addr, b, calcsize(_S2F_.framectrl))

\* a variant of the handler that returns the sentinel for every buffer
HeaderExcept_sentinel(b) == "returned"

\* the handler of lines 287-289: the sentinel for an empty buffer, the
\* module's error otherwise
HeaderExcept(b) == IF Len(b) <= 0 THEN "returned" ELSE "raised"

parse_header ==
    /\ pc = "start"
    /\ IF HeaderFails(f)
       THEN IF HeaderExcept(f) = "returned"
            THEN /\ m' = [offset |-> 0]
                 /\ pc' = "returned"
                 /\ exc' = exc
            ELSE /\ exc' = [type |-> "error", msg |-> "Failed to unpack"]
                 /\ pc' = "raised"
                 /\ m' = m
       ELSE /\ m' = HeaderRecord(f, hasFCS)
            /\ pc' = Dispatch(m')
            /\ exc' = exc
    /\ f' = IF ~HeaderFails(f) /\ hasFCS THEN DropTail(f, 4) ELSE f
    /\ decoded' = IF HeaderFails(f) THEN decoded
                  ELSE <<"framectrl", "duration", "addr1">>
                       \o (IF hasFCS THEN <<"fcs">> ELSE <<>>)
    /\ readfail' = HeaderFails(f)
    /\ UNCHANGED <<buf, hasFCS, ieiter, tidx>>

parse_rsrv ==
    /\ pc = "rsrv"
    /\ m' = ErrAppend(m, "framectrl.type", "invalid type RSRV")
    /\ pc' = AfterBranch(m)
    /\ readfail' = FALSE
    /\ UNCHANGED <<buf, hasFCS, f, exc, ieiter, tidx, decoded>>

\* lines 318-320
parse_finish ==
    /\ pc = "finish"
    /\ m' = IF hasFCS THEN PresentExtend(m, <<"fcs">>) ELSE m
    /\ pc' = "returned"
    /\ readfail' = FALSE
    /\ UNCHANGED <<buf, hasFCS, f, exc, ieiter, tidx, decoded>>

----------------------------------------------------------------------------
(* _parsedata_ *)

DataHasAddr4(d) == flags_(d).td = 1 /\ flags_(d).fd = 1

\* a variant that leaves out the first qos subtype
DataHasQos_above(d) ==
    ST_DATA_QOS_DATA < subtype_(d) /\ subtype_(d) <= ST_DATA_QOS_CFACK_CFPOLL

DataHasQos(d) ==
    ST_DATA_QOS_DATA <= subtype_(d) /\ subtype_(d) <= ST_DATA_QOS_CFACK_CFPOLL

\* lines 1910-1918
_parsedata_addrs ==
    /\ pc = "data_addrs"
    /\ LET fmt == _S2F_.addr \o _S2F_.addr \o _S2F_.seqctrl
           r == _unpack_from_(fmt, f, m["offset"])
       IN  /\ IF r.ok
              THEN /\ m' = PresentExtend(
                             Put(Put(Put(SetOffset(m, r.off),
                                 "addr2", _hwaddr_(SubSeq(r.vs, 1, 6))),
                                 "addr3", _hwaddr_(SubSeq(r.vs, 7, 12))),
                                 "seqctrl", _seqctrl_(r.vs[13])),
                             <<"addr2", "addr3", "seqctrl">>)
                   /\ decoded' = decoded \o <<"addr2", "addr3", "seqctrl">>
              ELSE /\ m' = ErrAppend(m, "data", "unpacking addr2,addr3,seqctrl")
                   /\ decoded' = decoded
           /\ readfail' = ~r.ok
    /\ pc' = IF DataHasAddr4(m) THEN "data_addr4"
             ELSE IF DataHasQos(m) THEN "data_qos"
             ELSE AfterBranch(m)
    /\ UNCHANGED <<buf, hasFCS, f, exc, ieiter, tidx>>

\* lines 1921-1927
_parsedata_addr4 ==
    /\ pc = "data_addr4"
    /\ LET r == _unpack_from_(_S2F_.addr, f, m["offset"])
       IN  /\ IF r.ok
              THEN /\ m' = PresentExtend(
                             Put(SetOffset(m, r.off), "addr4", _hwaddr_(r.vs)),
                             <<"addr4">>)
                   /\ decoded' = Append(decoded, "addr4")
              ELSE /\ m' = ErrAppend(m, "data.addr4", "unpacking")
                   /\ decoded' = decoded
           /\ readfail' = ~r.ok
    /\ pc' = IF DataHasQos(m) THEN "data_qos" ELSE AfterBranch(m)
    /\ UNCHANGED <<buf, hasFCS, f, exc, ieiter, tidx>>

\* lines 1930-1936
_parsedata_qos ==
    /\ pc = "data_qos"
    /\ LET r == _unpack_from_(_S2F_.qos, f, m["offset"])
       IN  /\ IF r.ok
              THEN /\ m' = PresentExtend(
                             Put(SetOffset(m, r.off), "qos", _qosctrl_(r.vs)),
                             <<"qos">>)
                   /\ decoded' = Append(decoded, "qos")
              ELSE /\ m' = ErrAppend(m, "data.qos", "unpacking")
                   /\ decoded' = decoded
           /\ readfail' = ~r.ok
    /\ pc' = AfterBranch(m)
    /\ UNCHANGED <<buf, hasFCS, f, exc, ieiter, tidx>>

----------------------------------------------------------------------------
(* _parsemgmt_ *)

_CAP_INFO_ == [ess |-> 1, ibss |-> 2, cfpollable |-> 4, cfpollreq |-> 8,
               privacy |-> 16, shortpre |-> 32, pbcc |-> 64, chagility |-> 128,
               specmgmt |-> 256, qos |-> 512, timeslot |-> 1024, apsd |-> 2048,
               rdomeas |-> 4096, dsssofdm |-> 8192, delayedba |-> 16384,
               immediateba |-> 32768]

capinfo_all(mn) == bitmask_list(_CAP_INFO_, mn)

\* lines 675-683
_parsemgmt_addrs ==
    /\ pc = "mgmt_addrs"
    /\ LET fmt == _S2F_.addr \o _S2F_.addr \o _S2F_.seqctrl
           r == _unpack_from_(fmt, f, m["offset"])
       IN  /\ IF r.ok
              THEN /\ m' = PresentExtend(
                             Put(Put(Put(SetOffset(m, r.off),
                                 "addr2", _hwaddr_(SubSeq(r.vs, 1, 6))),
                                 "addr3", _hwaddr_(SubSeq(r.vs, 7, 12))),
                                 "seqctrl", _seqctrl_(r.vs[13])),
                             <<"addr2", "addr3", "seqctrl">>)
                   /\ decoded' = decoded \o <<"addr2", "addr3", "seqctrl">>
              ELSE /\ m' = ErrAppend(m, "mgmt", "unpacking addr2,addr3,sequctrl")
                   /\ decoded' = decoded
           /\ readfail' = ~r.ok
    /\ pc' = "mgmt_fixed"
    /\ UNCHANGED <<buf, hasFCS, f, exc, ieiter, tidx>>

\* the format of the fixed parameters of a subtype, <<>> when it has none
FixedFmt(st) ==
    IF st = ST_MGMT_ASSOC_REQ THEN _S2F_.capability \o _S2F_.listenint
    ELSE IF st = ST_MGMT_ASSOC_RESP \/ st = ST_MGMT_REASSOC_RESP
         THEN _S2F_.capability \o _S2F_.statuscode \o _S2F_.aid
    ELSE IF st = ST_MGMT_REASSOC_REQ
         THEN _S2F_.capability \o _S2F_.listenint \o _S2F_.addr
    ELSE IF st = ST_MGMT_PROBE_REQ THEN <<>>
    ELSE IF st = ST_MGMT_TIMING_ADV THEN _S2F_.timestamp \o _S2F_.capability
    ELSE IF st = ST_MGMT_PROBE_RESP \/ st = ST_MGMT_BEACON
         THEN _S2F_.timestamp \o _S2F_.beaconint \o _S2F_.capability
    ELSE IF st = ST_MGMT_DISASSOC \/ st = ST_MGMT_DEAUTH THEN _S2F_.reasoncode
    ELSE IF st = ST_MGMT_AUTH
         THEN _S2F_.algorithmno \o _S2F_.authseq \o _S2F_.statuscode
    ELSE IF st = ST_MGMT_ACTION \/ st = ST_MGMT_ACTION_NOACK
         THEN _S2F_.category \o _S2F_.action
    ELSE <<>>

\* a variant that keeps the aid field as it was unpacked
FixedParams_rawaid(st, v) ==
    IF st = ST_MGMT_ASSOC_REQ
    THEN [capability |-> capinfo_all(v[1]), listenint |-> v[2]]
    ELSE IF st = ST_MGMT_ASSOC_RESP \/ st = ST_MGMT_REASSOC_RESP
    THEN [capability |-> capinfo_all(v[1]), statuscode |-> v[2],
          aid |-> v[3]]
    ELSE IF st = ST_MGMT_REASSOC_REQ
    THEN [capability |-> capinfo_all(v[1]), listenint |-> v[2],
          currentap |-> _hwaddr_(SubSeq(v, 3, Len(v)))]
    ELSE IF st = ST_MGMT_TIMING_ADV
    THEN [timestamp |-> v[1], capability |-> capinfo_all(v[2])]
    ELSE IF st = ST_MGMT_PROBE_RESP \/ st = ST_MGMT_BEACON
    THEN [timestamp |-> v[1], beaconint |-> v[2] * 1024,
          capability |-> capinfo_all(v[3])]
    ELSE IF st = ST_MGMT_DISASSOC \/ st = ST_MGMT_DEAUTH
    THEN [reasoncode |-> v]
    ELSE IF st = ST_MGMT_AUTH
    THEN [algorithmno |-> v[1], authseq |-> v[2], statuscode |-> v[3]]
    ELSE [category |-> v[1], action |-> v[2]]

\* m['fixed-params'] of a subtype from the unpacked values v
FixedParams(st, v) ==
    IF st = ST_MGMT_ASSOC_REQ
    THEN [capability |-> capinfo_all(v[1]), listenint |-> v[2]]
    ELSE IF st = ST_MGMT_ASSOC_RESP \/ st = ST_MGMT_REASSOC_RESP
    THEN [capability |-> capinfo_all(v[1]), statuscode |-> v[2],
          aid |-> leastx(14, v[3])]
    ELSE IF st = ST_MGMT_REASSOC_REQ
    THEN [capability |-> capinfo_all(v[1]), listenint |-> v[2],
          currentap |-> _hwaddr_(SubSeq(v, 3, Len(v)))]
    ELSE IF st = ST_MGMT_TIMING_ADV
    THEN [timestamp |-> v[1], capability |-> capinfo_all(v[2])]
    ELSE IF st = ST_MGMT_PROBE_RESP \/ st = ST_MGMT_BEACON
    THEN [timestamp |-> v[1], beaconint |-> v[2] * 1024,
          capability |-> capinfo_all(v[3])]
    ELSE IF st = ST_MGMT_DISASSOC \/ st = ST_MGMT_DEAUTH
    THEN [reasoncode |-> v]
    ELSE IF st = ST_MGMT_AUTH
    THEN [algorithmno |-> v[1], authseq |-> v[2], statuscode |-> v[3]]
    ELSE [category |-> v[1], action |-> v[2]]

\* lines 745-749: the action element(s) after the fixed parameters
ActionEls(d, b) ==
    IF d["offset"] < Len(b)
    THEN SetOffset(PresentExtend(Put(d, "action-el", SliceFrom(b, d["offset"])),
                                 <<"action-els">>),
                   Len(b))
    ELSE d

\* lines 692-743 and 751-753
_parsemgmt_fixed ==
    /\ pc = "mgmt_fixed"
    /\ LET st == subtype_(m)
           fmt == FixedFmt(st)
           r == _unpack_from_(fmt, f, m["offset"])
           m1 == PresentExtend(
                   Put(SetOffset(m, r.off), "fixed-params", FixedParams(st, r.vs)),
                   <<"fixed-params">>)
       IN  IF fmt = <<>>
           THEN /\ m' = m
                /\ decoded' = decoded
                /\ readfail' = FALSE
           ELSE IF r.ok
           THEN /\ m' = m1
                /\ decoded' = decoded \o <<"fixed-params">>
                /\ readfail' = FALSE
           ELSE /\ m' = ErrAppend(m, "mgmt." \o ST_MGMT_TYPES[st + 1],
                                  "unpacking/parsing")
                /\ decoded' = decoded
                /\ readfail' = TRUE
    /\ pc' = IF /\ subtype_(m) \in {ST_MGMT_ACTION, ST_MGMT_ACTION_NOACK}
                /\ ~struct_error(FixedFmt(subtype_(m)), f, m["offset"])
             THEN "mgmt_action"
             ELSE "mgmt_ies"
    /\ UNCHANGED <<buf, hasFCS, f, exc, ieiter, tidx>>

\* lines 745-749: the rest of an action frame, after its fixed parameters
_parsemgmt_actionel ==
    /\ pc = "mgmt_action"
    /\ m' = ActionEls(m, f)
    /\ decoded' = IF m["offset"] < Len(f) THEN Append(decoded, "action-el")
                  ELSE decoded
    /\ readfail' = FALSE
    /\ pc' = "mgmt_ies"
    /\ UNCHANGED <<buf, hasFCS, f, exc, ieiter, tidx>>

\* lines 756-758
_parsemgmt_ies ==
    /\ pc = "mgmt_ies"
    /\ IF m["offset"] < Len(f)
       THEN /\ m' = PresentExtend(Put(m, "info-elements", <<>>), <<"info-elements">>)
            /\ decoded' = Append(decoded, "info-elements")
            /\ pc' = "mgmt_ie"
       ELSE /\ m' = m
            /\ decoded' = decoded
            /\ pc' = AfterBranch(m)
    /\ readfail' = FALSE
    /\ UNCHANGED <<buf, hasFCS, f, exc, ieiter, tidx>>

EID_SSID            == 0
EID_SUPPORTED_RATES == 1
EID_DSSS            == 3
EID_TIM             == 5
EID_IBSS            == 6
EID_PWR_CONSTRAINT  == 32
EID_VEND_SPEC       == 221

\* the element ids the model decodes, the reserved ones included
EidsDecoded ==
    {EID_SSID, EID_SUPPORTED_RATES, EID_DSSS, EID_TIM, EID_IBSS,
     EID_PWR_CONSTRAINT, EID_VEND_SPEC} \cup (17..31) \cup (222..255)

\* _getrate_
_getrate_(val) == leastx(7, val)

\* _parseie_ for the element ids of EidsDecoded: ok = FALSE stands for
\* error(eid,e), raised on struct.error and IndexError.  A rate is kept in
\* units of 0.5 Mbps and the utf8 decoding of an ssid is left out.
_parseie_(eid, info) ==
    CASE eid = EID_SSID -> [ok |-> TRUE, ie |-> <<eid, info>>]
      [] eid = EID_SUPPORTED_RATES ->
            [ok |-> TRUE, ie |-> <<eid, [i \in 1..Len(info) |-> _getrate_(info[i])]>>]
      [] eid = EID_DSSS ->
            IF Len(info) # 1 THEN [ok |-> FALSE, eid |-> eid]
            ELSE [ok |-> TRUE, ie |-> <<eid, info[1]>>]
      [] eid = EID_TIM ->
            IF Len(info) < 3 THEN [ok |-> FALSE, eid |-> eid]
            ELSE [ok |-> TRUE,
                  ie |-> <<eid, [dtimcnt |-> info[1], dtimper |-> info[2],
                                 bmctrl |-> [tib |-> leastx(1, info[3]),
                                             offset |-> mostx(1, info[3])],
                                 virbm |-> SliceFrom(info, 3)]>>]
      [] eid = EID_IBSS ->
            IF Len(info) < 2 THEN [ok |-> FALSE, eid |-> eid]
            ELSE [ok |-> TRUE, ie |-> <<eid, info[1] + 256 * info[2]>>]
      [] eid = EID_PWR_CONSTRAINT ->
            IF Len(info) < 1 THEN [ok |-> FALSE, eid |-> eid]
            ELSE [ok |-> TRUE, ie |-> <<eid, info[1]>>]
      [] eid = EID_VEND_SPEC ->
            IF Len(info) < 3 THEN [ok |-> FALSE, eid |-> eid]
            ELSE [ok |-> TRUE,
                  ie |-> <<eid, [oui |-> SubSeq(info, 1, 3),
                                 content |-> SliceFrom(info, 3)]>>]
      [] eid \in (17..31) \cup (222..255) ->
            [ok |-> TRUE, ie |-> <<eid, [rsrv |-> info]>>]

\* a variant that leaves the loop after its first iteration
IeLoopGoesOn_once(d, b) == FALSE

\* the test of the while of line 759, evaluated after an iteration
IeLoopGoesOn(d, b) == d["offset"] < Len(b)

\* one iteration of the loop of lines 759-779
_parsemgmt_ie ==
    /\ pc = "mgmt_ie"
    /\ m["offset"] < Len(f)
    /\ ieiter < MaxIeIter
    /\ LET r == _unpack_from_(<<1, 1>>, f, m["offset"])
           ie == Slice(f, r.off, r.off + r.vs[2])
           p == _parseie_(r.vs[1], ie)
           m1 == SetOffset(m, r.off + r.vs[2])
       IN  /\ IF ~r.ok
              THEN m' = ErrAppend(m, "mgmt.info-elements", "generic")
              ELSE IF p.ok
              THEN m' = [m1 EXCEPT !["info-elements"] = Append(@, p.ie)]
              ELSE m' = ErrAppend(m1, "mgmt.info-elements.eid-" \o ToString(p.eid),
                                  "parsing")
           /\ readfail' = ~r.ok
    /\ ieiter' = ieiter + 1
    /\ pc' = IF IeLoopGoesOn(m', f) THEN "mgmt_ie" ELSE AfterBranch(m)
    /\ UNCHANGED <<buf, hasFCS, f, exc, tidx, decoded>>

\* the loop of lines 759-779 does not end: the element header cannot be
\* unpacked, the handler of line 778 leaves the offset where it is and the
\* condition of line 759 stays true
_parsemgmt_hang ==
    /\ pc = "mgmt_ie"
    /\ m["offset"] < Len(f)
    /\ ieiter >= MaxIeIter
    /\ struct_error(<<1, 1>>, f, m["offset"])
    /\ pc' = "hung"
    /\ UNCHANGED <<buf, hasFCS, f, m, exc, ieiter, tidx, decoded, readfail>>

----------------------------------------------------------------------------
(* _parsectrl_ *)

_BACTRL_ == [ackpolicy |-> 1, multitid |-> 2, compressedbm |-> 4]
_BACTRL_RSRV_START_ == 3
_BACTRL_RSRV_LEN_ == 9
_BACTRL_TID_INFO_START_ == 12

\* the keys 'multi-tid', 'compressed-bm' and 'tid-info' are written multitid,
\* compressedbm and tidinfo; type is "" until the source sets the key
_bactrl_(v) ==
    LET bc == bitmask_list(_BACTRL_, v)
    IN  [ackpolicy |-> bc.ackpolicy,
         multitid |-> bc.multitid,
         compressedbm |-> bc.compressedbm,
         rsrv |-> midx(_BACTRL_RSRV_START_, _BACTRL_RSRV_LEN_, v),
         tidinfo |-> mostx(_BACTRL_TID_INFO_START_, v),
         type |-> ""]

_BACTRL_PERTID_DIVIDER_ == 12

_pertid_(v) ==
    [fragno |-> _seqctrl_(v[2]).fragno,
     seqno |-> _seqctrl_(v[2]).seqno,
     pertidrsrv |-> leastx(_BACTRL_PERTID_DIVIDER_, v[1]),
     pertidtid |-> mostx(_BACTRL_PERTID_DIVIDER_, v[1])]

\* a variant that reports every failure under one location
ReadAddr2_oneloc(d, b, loc) ==
    LET r == _unpack_from_(_S2F_.addr, b, d["offset"])
    IN  IF r.ok
        THEN PresentExtend(Put(SetOffset(d, r.off), "addr2", _hwaddr_(r.vs)),
                           <<"addr2">>)
        ELSE ErrAppend(d, "ctrl.addr2", "unpacking")

\* the try blocks that read addr2 (lines 1732-1739, 1742-1748, 1790-1796)
ReadAddr2(d, b, loc) ==
    LET r == _unpack_from_(_S2F_.addr, b, d["offset"])
    IN  IF r.ok
        THEN PresentExtend(Put(SetOffset(d, r.off), "addr2", _hwaddr_(r.vs)),
                           <<"addr2">>)
        ELSE ErrAppend(d, loc, "unpacking")

\* lines 1730-1739 and 1867-1869: the subtypes without further fields
_parsectrl_ ==
    /\ pc = "ctrl"
    /\ subtype_(m) \notin {ST_CTRL_BLOCK_ACK_REQ, ST_CTRL_BLOCK_ACK, ST_CTRL_WRAPPER}
    /\ LET st == subtype_(m)
           fails == struct_error(_S2F_.addr, f, m["offset"])
       IN  IF st = ST_CTRL_CTS \/ st = ST_CTRL_ACK
           THEN /\ m' = m
                /\ decoded' = decoded
                /\ readfail' = FALSE
           ELSE IF st \in {ST_CTRL_RTS, ST_CTRL_PSPOLL, ST_CTRL_CFEND,
                           ST_CTRL_CFEND_CFACK}
           THEN /\ m' = ReadAddr2(m, f, "ctrl." \o ST_CTRL_TYPES[st + 1])
                /\ decoded' = IF fails THEN decoded ELSE Append(decoded, "addr2")
                /\ readfail' = fails
           ELSE /\ m' = ErrAppend(m, "ctrl", "invalid subtype")
                /\ decoded' = decoded
                /\ readfail' = FALSE
    /\ pc' = AfterBranch(m)
    /\ UNCHANGED <<buf, hasFCS, f, exc, ieiter, tidx>>

\* lines 1742-1748
_parsectrl_bar_addr2 ==
    /\ pc = "ctrl"
    /\ subtype_(m) = ST_CTRL_BLOCK_ACK_REQ
    /\ LET fails == struct_error(_S2F_.addr, f, m["offset"])
       IN  /\ m' = ReadAddr2(m, f, "ctrl.ctrl-block-ack-req.addr2")
           /\ decoded' = IF fails THEN decoded ELSE Append(decoded, "addr2")
           /\ readfail' = fails
    /\ pc' = "bar_ctrl"
    /\ UNCHANGED <<buf, hasFCS, f, exc, ieiter, tidx>>

\* lines 1750-1756
_parsectrl_barctrl ==
    /\ pc = "bar_ctrl"
    /\ LET r == _unpack_from_(_S2F_.barctrl, f, m["offset"])
       IN  /\ IF r.ok
              THEN /\ m' = PresentExtend(
                             Put(SetOffset(m, r.off), "barctrl", _bactrl_(r.vs)),
                             <<"barctrl">>)
                   /\ decoded' = Append(decoded, "barctrl")
              ELSE /\ m' = ErrAppend(m, "ctrl.ctrl-block-ack-req.barctrl", "unpacking")
                   /\ decoded' = decoded
           /\ readfail' = ~r.ok
    /\ pc' = "bar_info"
    /\ UNCHANGED <<buf, hasFCS, f, exc, ieiter, tidx>>

SetType(d, k, t) == [d EXCEPT ![k] = [@ EXCEPT !.type = t]]

\* lines 1759-1777 and 1785-1787: the bar info field up to the multi-tid loop
_parsectrl_barinfo ==
    /\ pc = "bar_info"
    /\ IF "barctrl" \notin DOMAIN m
       THEN \* KeyError on m['barctrl']
            /\ m' = ErrAppend(m, "ctrl.ctrl-block-ack-req.barinfo", "unpacking")
            /\ decoded' = decoded
            /\ readfail' = FALSE
            /\ pc' = AfterBranch(m)
       ELSE IF m["barctrl"].multitid = 0
       THEN LET t == IF m["barctrl"].compressedbm = 0 THEN "basic" ELSE "compressed"
                m1 == SetType(m, "barctrl", t)
                r == _unpack_from_(_S2F_.seqctrl, f, m["offset"])
            IN  /\ IF r.ok
                   THEN /\ m' = Put(SetOffset(m1, r.off), "barinfo", _seqctrl_(r.vs))
                        /\ decoded' = Append(decoded, "barinfo")
                   ELSE /\ m' = ErrAppend(m1, "ctrl.ctrl-block-ack-req.barinfo",
                                          "unpacking")
                        /\ decoded' = decoded
                /\ readfail' = ~r.ok
                /\ pc' = AfterBranch(m)
       ELSE IF m["barctrl"].compressedbm = 0
       THEN /\ m' = SetOffset(Put(SetType(m, "barctrl", "reserved"), "barinfo",
                                  [unparsed |-> SliceFrom(f, m["offset"])]),
                              m["offset"] + Len(SliceFrom(f, m["offset"])))
            /\ decoded' = Append(decoded, "barinfo")
            /\ readfail' = FALSE
            /\ pc' = AfterBranch(m)
       ELSE /\ m' = Put(SetType(m, "barctrl", "multi-tid"), "barinfo",
                        [tids |-> <<>>])
            /\ decoded' = Append(decoded, "barinfo")
            /\ readfail' = FALSE
            /\ pc' = "bar_tids"
    /\ tidx' = 0
    /\ UNCHANGED <<buf, hasFCS, f, exc, ieiter>>

\* one iteration of the loop of lines 1778-1784
_parsectrl_bartids ==
    /\ pc = "bar_tids"
    /\ LET r == _unpack_from_(<<2, 2>>, f, m["offset"])
       IN  /\ IF r.ok
              THEN /\ m' = [SetOffset(m, r.off) EXCEPT
                              !["barinfo"] = [tids |-> Append(@.tids, _pertid_(r.vs))]]
                   /\ tidx' = tidx + 1
                   /\ pc' = IF tidx + 1 < m["barctrl"].tidinfo + 1
                            THEN "bar_tids" ELSE AfterBranch(m)
              ELSE /\ m' = ErrAppend(m, "ctrl.ctrl-block-ack-req.barinfo.tids",
                                     "unpacking")
                   /\ tidx' = tidx
                   /\ pc' = AfterBranch(m)
           /\ readfail' = ~r.ok
    /\ UNCHANGED <<buf, hasFCS, f, exc, ieiter, decoded>>

\* lines 1790-1796
_parsectrl_ba_addr2 ==
    /\ pc = "ctrl"
    /\ subtype_(m) = ST_CTRL_BLOCK_ACK
    /\ LET fails == struct_error(_S2F_.addr, f, m["offset"])
       IN  /\ m' = ReadAddr2(m, f, "ctrl.ctrl-block-ack.addr2")
           /\ decoded' = IF fails THEN decoded ELSE Append(decoded, "addr2")
           /\ readfail' = fails
    /\ pc' = "ba_ctrl"
    /\ UNCHANGED <<buf, hasFCS, f, exc, ieiter, tidx>>

\* lines 1798-1803
_parsectrl_bactrl ==
    /\ pc = "ba_ctrl"
    /\ LET r == _unpack_from_(_S2F_.bactrl, f, m["offset"])
       IN  /\ IF r.ok
              THEN /\ m' = PresentExtend(
                             Put(SetOffset(m, r.off), "bactrl", _bactrl_(r.vs)),
                             <<"bactrl">>)
                   /\ decoded' = Append(decoded, "bactrl")
              ELSE /\ m' = ErrAppend(m, "ctrl.ctrl-block-ack.bactrl", "unpacking")
                   /\ decoded' = decoded
           /\ readfail' = ~r.ok
    /\ pc' = "ba_info"
    /\ UNCHANGED <<buf, hasFCS, f, exc, ieiter, tidx>>

\* lines 1806-1828 and 1839-1840: the ba info field up to the multi-tid loop
_parsectrl_bainfo ==
    /\ pc = "ba_info"
    /\ IF "bactrl" \notin DOMAIN m
       THEN \* KeyError on m['bactrl']
            /\ m' = ErrAppend(m, "ctrl.ctrl-block-ack.bainfo", "unpacking")
            /\ decoded' = decoded
            /\ readfail' = FALSE
            /\ pc' = AfterBranch(m)
       ELSE IF m["bactrl"].multitid = 0
       THEN LET r == _unpack_from_(_S2F_.seqctrl, f, m["offset"])
                basic == m["bactrl"].compressedbm = 0
                n == IF basic THEN 128 ELSE 8
                info == [fragno |-> _seqctrl_(r.vs).fragno,
                         seqno |-> _seqctrl_(r.vs).seqno,
                         babitmap |-> Slice(f, r.off, r.off + n)]
            IN  /\ IF r.ok
                   THEN /\ m' = SetOffset(
                                  Put(SetType(m, "bactrl",
                                              IF basic THEN "basic" ELSE "compressed"),
                                      "bainfo", info),
                                  r.off + n)
                        /\ decoded' = Append(decoded, "bainfo")
                   ELSE /\ m' = ErrAppend(m, "ctrl.ctrl-block-ack.bainfo", "unpacking")
                        /\ decoded' = decoded
                /\ readfail' = ~r.ok
                /\ pc' = AfterBranch(m)
       ELSE IF m["bactrl"].compressedbm = 0
       THEN /\ m' = Put(SetType(m, "bactrl", "reserved"), "bainfo",
                        [unparsed |-> SliceFrom(f, m["offset"])])
            /\ decoded' = Append(decoded, "bainfo")
            /\ readfail' = FALSE
            /\ pc' = AfterBranch(m)
       ELSE /\ m' = Put(SetType(m, "bactrl", "multi-tid"), "bainfo", [tids |-> <<>>])
            /\ decoded' = Append(decoded, "bainfo")
            /\ readfail' = FALSE
            /\ pc' = "ba_tids"
    /\ tidx' = 0
    /\ UNCHANGED <<buf, hasFCS, f, exc, ieiter>>

\* one iteration of the loop of lines 1829-1838
_parsectrl_batids ==
    /\ pc = "ba_tids"
    /\ LET r == _unpack_from_(<<2, 2>>, f, m["offset"])
           pt == [fragno |-> _pertid_(r.vs).fragno,
                  seqno |-> _pertid_(r.vs).seqno,
                  pertidrsrv |-> _pertid_(r.vs).pertidrsrv,
                  pertidtid |-> _pertid_(r.vs).pertidtid,
                  babitmap |-> Slice(f, r.off, r.off + 8)]
       IN  /\ IF r.ok
              THEN /\ m' = [SetOffset(m, r.off + 8) EXCEPT
                              !["bainfo"] = [tids |-> Append(@.tids, pt)]]
                   /\ tidx' = tidx + 1
                   /\ pc' = IF tidx + 1 < m["bactrl"].tidinfo + 1
                            THEN "ba_tids" ELSE AfterBranch(m)
              ELSE /\ m' = ErrAppend(m, "ctrl.ctrl-block-ack.bainfo.tids", "unpacking")
                   /\ tidx' = tidx
                   /\ pc' = AfterBranch(m)
           /\ readfail' = ~r.ok
    /\ UNCHANGED <<buf, hasFCS, f, exc, ieiter, decoded>>

\* lines 1843-1849
_parsectrl_wrapper_fc ==
    /\ pc = "ctrl"
    /\ subtype_(m) = ST_CTRL_WRAPPER
    /\ LET r == _unpack_from_(_S2F_.framectrl, f, m["offset"])
       IN  /\ IF r.ok
              THEN /\ m' = PresentExtend(
                             Put(SetOffset(m, r.off), "carriedframectrl", r.vs),
                             <<"carriedframectrl">>)
                   /\ decoded' = Append(decoded, "carriedframectrl")
              ELSE /\ m' = ErrAppend(m, "ctrl.ctrl-wrapper.carriedframectrl",
                                     "unpacking")
                   /\ decoded' = decoded
           /\ readfail' = ~r.ok
    /\ pc' = "wrapper_htc"
    /\ UNCHANGED <<buf, hasFCS, f, exc, ieiter, tidx>>

\* lines 1852-1857
_parsectrl_wrapper_htc ==
    /\ pc = "wrapper_htc"
    /\ LET r == _unpack_from_(_S2F_.htc, f, m["offset"])
       IN  /\ IF r.ok
              THEN /\ m' = PresentExtend(Put(SetOffset(m, r.off), "htc", r.vs),
                                         <<"htc">>)
                   /\ decoded' = Append(decoded, "htc")
              ELSE /\ m' = ErrAppend(m, "ctrl.ctrl-wrapper.htc", "unpacking")
                   /\ decoded' = decoded
           /\ readfail' = ~r.ok
    /\ pc' = "wrapper_frame"
    /\ UNCHANGED <<buf, hasFCS, f, exc, ieiter, tidx>>

\* lines 1860-1866
_parsectrl_wrapper_frame ==
    /\ pc = "wrapper_frame"
    /\ m' = PresentExtend(
              SetOffset(Put(m, "carriedframe", SliceFrom(f, m["offset"])),
                        m["offset"] + Len(SliceFrom(f, m["offset"]))),
              <<"htc", "carriedframe">>)
    /\ decoded' = Append(decoded, "carriedframe")
    /\ readfail' = FALSE
    /\ pc' = AfterBranch(m)
    /\ UNCHANGED <<buf, hasFCS, f, exc, ieiter, tidx>>

----------------------------------------------------------------------------
(* Encryption: _wep_, _tkip_, _ccmp_ and the test of parse, lines 299-316 *)

_WEP_IV_LEN_ == 4
_WEP_ICV_LEN_ == 4
_WEP_IV_KEY_START_ == 6

\* b[i] of the source: IndexError when i is not an index of b
IndexError(b, i) == i >= Len(b)

_wep_(b, d) ==
    LET o == d["offset"]
    IN  IF struct_error(_S2F_.wepkeyid, b, o + _WEP_IV_LEN_ - 1)
        THEN ErrAppend(d, "l3-crypt.wep", "parsing")
        ELSE LET keyid == b[o + _WEP_IV_LEN_ - 1 + 1]
                 d1 == Put(d, "l3-crypt",
                           [type |-> "wep",
                            iv |-> Slice(b, o, o + _WEP_IV_LEN_),
                            keyid |-> mostx(_WEP_IV_KEY_START_, keyid),
                            icv |-> Tail_(b, _WEP_ICV_LEN_)])
             IN  [d1 EXCEPT !["offset"] = @ + _WEP_IV_LEN_,
                            !["stripped"] = @ + _WEP_ICV_LEN_]

_TKIP_TSC1_BYTE_    == 0
_TKIP_WEPSEED_BYTE_ == 1
_TKIP_TSC0_BYTE_    == 2
_TKIP_KEY_BYTE_     == 3
_TKIP_EXT_IV_       == 5
_TKIP_EXT_IV_LEN_   == 1
_TKIP_TSC2_BYTE_    == 4
_TKIP_TSC3_BYTE_    == 5
_TKIP_TSC4_BYTE_    == 6
_TKIP_TSC5_BYTE_    == 7
_TKIP_IV_LEN_       == 8
_TKIP_MIC_LEN_      == 8
_TKIP_ICV_LEN_      == 4

\* a variant that counts the icv and not the mic as stripped
_tkip_icvonly(b, d) ==
    LET o == d["offset"]
    IN  IF \/ struct_error(<<1>>, b, o + _TKIP_KEY_BYTE_)
           \/ \E k \in {_TKIP_TSC1_BYTE_, _TKIP_WEPSEED_BYTE_, _TKIP_TSC0_BYTE_,
                        _TKIP_TSC2_BYTE_, _TKIP_TSC3_BYTE_, _TKIP_TSC4_BYTE_,
                        _TKIP_TSC5_BYTE_} : IndexError(b, o + k)
        THEN ErrAppend(d, "l3-crypt.tkip", "parsing")
        ELSE LET keyid == b[o + _TKIP_KEY_BYTE_ + 1]
                 d1 == Put(d, "l3-crypt",
                        [type |-> "tkip",
                         iv |-> [tsc1 |-> b[o + _TKIP_TSC1_BYTE_ + 1],
                                 wepseed |-> b[o + _TKIP_WEPSEED_BYTE_ + 1],
                                 tsc0 |-> b[o + _TKIP_TSC0_BYTE_ + 1],
                                 keyid |-> [rsrv |-> leastx(_TKIP_EXT_IV_, keyid),
                                            extiv |-> midx(_TKIP_EXT_IV_,
                                                           _TKIP_EXT_IV_LEN_, keyid),
                                            keyid |-> mostx(_TKIP_EXT_IV_
                                                            + _TKIP_EXT_IV_LEN_, keyid)]],
                         extiv |-> [tsc2 |-> b[o + _TKIP_TSC2_BYTE_ + 1],
                                    tsc3 |-> b[o + _TKIP_TSC3_BYTE_ + 1],
                                    tsc4 |-> b[o + _TKIP_TSC4_BYTE_ + 1],
                                    tsc5 |-> b[o + _TKIP_TSC5_BYTE_ + 1]],
                         mic |-> TailBut(b, _TKIP_MIC_LEN_ + _TKIP_ICV_LEN_,
                                         _TKIP_ICV_LEN_),
                         icv |-> Tail_(b, _TKIP_ICV_LEN_)])
             IN  [d1 EXCEPT !["offset"] = @ + _TKIP_IV_LEN_,
                            !["stripped"] = @ + _TKIP_ICV_LEN_]

_tkip_(b, d) ==
    LET o == d["offset"]
    IN  IF \/ struct_error(<<1>>, b, o + _TKIP_KEY_BYTE_)
           \/ \E k \in {_TKIP_TSC1_BYTE_, _TKIP_WEPSEED_BYTE_, _TKIP_TSC0_BYTE_,
                        _TKIP_TSC2_BYTE_, _TKIP_TSC3_BYTE_, _TKIP_TSC4_BYTE_,
                        _TKIP_TSC5_BYTE_} : IndexError(b, o + k)
        THEN ErrAppend(d, "l3-crypt.tkip", "parsing")
        ELSE LET keyid == b[o + _TKIP_KEY_BYTE_ + 1]
                 d1 == Put(d, "l3-crypt",
                        [type |-> "tkip",
                         iv |-> [tsc1 |-> b[o + _TKIP_TSC1_BYTE_ + 1],
                                 wepseed |-> b[o + _TKIP_WEPSEED_BYTE_ + 1],
                                 tsc0 |-> b[o + _TKIP_TSC0_BYTE_ + 1],
                                 keyid |-> [rsrv |-> leastx(_TKIP_EXT_IV_, keyid),
                                            extiv |-> midx(_TKIP_EXT_IV_,
                                                           _TKIP_EXT_IV_LEN_, keyid),
                                            keyid |-> mostx(_TKIP_EXT_IV_
                                                            + _TKIP_EXT_IV_LEN_, keyid)]],
                         extiv |-> [tsc2 |-> b[o + _TKIP_TSC2_BYTE_ + 1],
                                    tsc3 |-> b[o + _TKIP_TSC3_BYTE_ + 1],
                                    tsc4 |-> b[o + _TKIP_TSC4_BYTE_ + 1],
                                    tsc5 |-> b[o + _TKIP_TSC5_BYTE_ + 1]],
                         mic |-> TailBut(b, _TKIP_MIC_LEN_ + _TKIP_ICV_LEN_,
                                         _TKIP_ICV_LEN_),
                         icv |-> Tail_(b, _TKIP_ICV_LEN_)])
             IN  [d1 EXCEPT !["offset"] = @ + _TKIP_IV_LEN_,
                            !["stripped"] = @ + _TKIP_MIC_LEN_ + _TKIP_ICV_LEN_]

_CCMP_PN0_BYTE_   == 0
_CCMP_PN1_BYTE_   == 1
_CCMP_RSRV_BYTE_  == 2
_CCMP_KEY_BYTE_   == 3
_CCMP_EXT_IV_     == 5
_CCMP_EXT_IV_LEN_ == 1
_CCMP_PN2_BYTE_   == 4
_CCMP_PN3_BYTE_   == 5
_CCMP_PN4_BYTE_   == 6
_CCMP_PN5_BYTE_   == 7
_CCMP_IV_LEN_     == 8
_CCMP_MIC_LEN_    == 8

\* pn5 is read at _CCMP_PN0_BYTE_ (line 2057), so the octet at
\* _CCMP_PN5_BYTE_ is never indexed
_ccmp_(b, d) ==
    LET o == d["offset"]
    IN  IF \/ struct_error(<<1>>, b, o + _CCMP_KEY_BYTE_)
           \/ \E k \in {_CCMP_PN0_BYTE_, _CCMP_PN1_BYTE_, _CCMP_RSRV_BYTE_,
                        _CCMP_PN2_BYTE_, _CCMP_PN3_BYTE_, _CCMP_PN4_BYTE_} :
                 IndexError(b, o + k)
        THEN ErrAppend(d, "l3-crypt.ccmp", "parsing")
        ELSE LET keyid == b[o + _CCMP_KEY_BYTE_ + 1]
                 d1 == Put(d, "l3-crypt",
                        [type |-> "ccmp",
                         pn0 |-> b[o + _CCMP_PN0_BYTE_ + 1],
                         pn1 |-> b[o + _CCMP_PN1_BYTE_ + 1],
                         rsrv |-> b[o + _CCMP_RSRV_BYTE_ + 1],
                         keyid |-> [rsrv |-> leastx(_CCMP_EXT_IV_, keyid),
                                    extiv |-> midx(_CCMP_EXT_IV_,
                                                   _CCMP_EXT_IV_LEN_, keyid),
                                    keyid |-> mostx(_CCMP_EXT_IV_
                                                    + _CCMP_EXT_IV_LEN_, keyid)],
                         pn2 |-> b[o + _CCMP_PN2_BYTE_ + 1],
                         pn3 |-> b[o + _CCMP_PN3_BYTE_ + 1],
                         pn4 |-> b[o + _CCMP_PN4_BYTE_ + 1],
                         pn5 |-> b[o + _CCMP_PN0_BYTE_ + 1],
                         mic |-> Tail_(b, _CCMP_MIC_LEN_)])
             IN  [d1 EXCEPT !["offset"] = @ + _CCMP_IV_LEN_,
                            !["stripped"] = @ + _CCMP_MIC_LEN_]

\* a variant of the test that compares the seed with tsc1 as it is
CryptType_plain(bs) ==
    IF BitAnd(bs[4], 32) # 0
    THEN IF BitAnd(bs[1], 127) = bs[2] THEN "tkip" ELSE "ccmp"
    ELSE "wep"

\* the decoder chosen by the test of lines 305-311 from the four octets bs
CryptType(bs) ==
    IF BitAnd(bs[4], 32) # 0
    THEN IF BitAnd(BitOr(bs[1], 32), 127) = bs[2] THEN "tkip" ELSE "ccmp"
    ELSE "wep"

\* lines 299-316
parse_crypt ==
    /\ pc = "crypt"
    /\ IF struct_error(<<1, 1, 1, 1>>, f, m["offset"])
       THEN /\ m' = ErrAppend(m, "l3-crypt", "unpacking encryption")
            /\ readfail' = TRUE
       ELSE LET bs == struct_unpack_from(<<1, 1, 1, 1>>, f, m["offset"])
                t == CryptType(bs)
                m1 == IF t = "tkip" THEN _tkip_(f, m)
                      ELSE IF t = "ccmp" THEN _ccmp_(f, m)
                      ELSE _wep_(f, m)
            IN  /\ m' = IF "l3-crypt" \in DOMAIN m1
                        THEN PresentExtend(m1, <<"l3-crypt">>)
                        ELSE m1
                /\ readfail' = ("l3-crypt" \notin DOMAIN m1)
    /\ decoded' = IF "l3-crypt" \in DOMAIN m' THEN Append(decoded, "l3-crypt")
                  ELSE decoded
    /\ pc' = "finish"
    /\ UNCHANGED <<buf, hasFCS, f, exc, ieiter, tidx>>

----------------------------------------------------------------------------
(* The specification *)

Next ==
    \/ parse_header
    \/ parse_rsrv
    \/ _parsemgmt_addrs
    \/ _parsemgmt_fixed
    \/ _parsemgmt_actionel
    \/ _parsemgmt_ies
    \/ _parsemgmt_ie
    \/ _parsemgmt_hang
    \/ _parsectrl_
    \/ _parsectrl_bar_addr2
    \/ _parsectrl_barctrl
    \/ _parsectrl_barinfo
    \/ _parsectrl_bartids
    \/ _parsectrl_ba_addr2
    \/ _parsectrl_bactrl
    \/ _parsectrl_bainfo
    \/ _parsectrl_batids
    \/ _parsectrl_wrapper_fc
    \/ _parsectrl_wrapper_htc
    \/ _parsectrl_wrapper_frame
    \/ _parsedata_addrs
    \/ _parsedata_addr4
    \/ _parsedata_qos
    \/ parse_crypt
    \/ parse_finish

Spec == Init /\ [][Next]_vars

----------------------------------------------------------------------------
(* _duration_ on its own: every 16-bit value of the duration/id field *)

Octets == 0..255

\* the value unpacked from the two octets of the field ('H', little endian)
DurationValue == FieldAt(buf, 0, 2)

InitDuration ==
    /\ buf \in {<<lo, hi>> : lo \in Octets, hi \in Octets}
    /\ hasFCS = FALSE
    /\ f = buf
    /\ m = <<>>
    /\ pc = "duration"
    /\ exc = [type |-> "none", msg |-> ""]
    /\ ieiter = 0
    /\ tidx = 0
    /\ decoded = <<>>
    /\ readfail = FALSE

\* line 280: m['duration'] = _duration_(vs[0])
duration_decode ==
    /\ pc = "duration"
    /\ m' = [duration |-> _duration_(DurationValue)]
    /\ pc' = "duration_done"
    /\ decoded' = <<"duration">>
    /\ UNCHANGED <<buf, hasFCS, f, exc, ieiter, tidx, readfail>>

NextDuration == duration_decode

SpecDuration == InitDuration /\ [][NextDuration]_vars

----------------------------------------------------------------------------
(* The encryption step on its own: protected data frames whose body starts
   with every combination of the octets that the test of lines 305-311
   looks at *)

MaxBody == 12

CryptOctets == {0, 32, 33, 127, 160, 255}

\* a data frame of subtype data or qos-data with pf set, a header of zeros
\* and a body of n octets: b0, b1, 0, b3, then t
CryptFrame(fc0, b0, b1, b3, t, n) ==
    LET hdr == 24 + (IF fc0 = 136 THEN 2 ELSE 0)
    IN  [i \in 1..(hdr + n) |->
            IF i = 1 THEN fc0
            ELSE IF i = 2 THEN 64
            ELSE IF i = hdr + 1 THEN b0
            ELSE IF i = hdr + 2 THEN b1
            ELSE IF i = hdr + 4 THEN b3
            ELSE IF i > hdr + 4 THEN t
            ELSE 0]

InitCrypt ==
    /\ buf \in {CryptFrame(fc0, b0, b1, b3, t, n) :
                  fc0 \in {8, 136}, b0 \in CryptOctets, b1 \in CryptOctets,
                  b3 \in CryptOctets, t \in {0, 255}, n \in 0..MaxBody}
    /\ hasFCS \in BOOLEAN
    /\ f = buf
    /\ m = <<>>
    /\ pc = "start"
    /\ exc = [type |-> "none", msg |-> ""]
    /\ ieiter = 0
    /\ tidx = 0
    /\ decoded = <<>>
    /\ readfail = FALSE

\* the steps of parse that a data frame without addr4 goes through
NextCrypt ==
    \/ parse_header
    \/ _parsedata_addrs
    \/ _parsedata_qos
    \/ parse_crypt
    \/ parse_finish

SpecCrypt == InitCrypt /\ [][NextCrypt]_vars

----------------------------------------------------------------------------
(* Properties of parse *)

Range(s) == {s[i] : i \in 1..Len(s)}

\* parse has returned a record that holds a decoded header
ReturnedRecord == pc = "returned" /\ "framectrl" \in DOMAIN m

\* the tags that parse always decodes, and fcs, which is kept or not by has_fcs
HeaderTags == {"framectrl", "duration", "addr1", "fcs"}

\* C1: for every returned record the octets consumed from the front plus the
\* octets stripped from the back do not exceed the length of the buffer:
\* offset + stripped <= len(buf)
C1_ConsumedWithinBuffer ==
    pc = "returned" => offset_(m) + stripped_(m) <= Len(buf)

\* C2: for a buffer of at least 10 octets parse returns a record and raises
\* nothing: it neither leaves with an exception nor fails to return
C2_AlwaysReturns ==
    Len(buf) >= 10 => pc \notin {"raised", "hung"}

\* C3: the information element loop of a management frame runs at most
\* len(buf) times
C3_IeLoopBounded ==
    ieiter <= Len(buf)

\* C4: every tag of present other than framectrl, duration, addr1 and fcs is
\* a key of the returned record
C4_PresentTagsAreKeys ==
    ReturnedRecord =>
        \A t \in Range(present_(m)) \ HeaderTags : t \in DOMAIN m

\* C5: fcs is in present exactly if has_fcs was set and the buffer holds at
\* least 14 octets
C5_FcsNeedsFourteen ==
    ReturnedRecord =>
        (("fcs" \in Range(present_(m))) <=> (hasFCS /\ Len(buf) >= 14))

NonEmptyRecord(d) == DOMAIN d # {"offset"}

\* C7: in a returned record present contains framectrl exactly if the record
\* is non-empty; the present of a non-empty record starts with framectrl,
\* duration, addr1 and the record has a value under each of the three
C7_MandatoryHeader ==
    pc = "returned" =>
        /\ ("framectrl" \in Range(present_(m))) <=> NonEmptyRecord(m)
        /\ NonEmptyRecord(m) =>
               /\ Len(present_(m)) >= 3
               /\ SubSeq(present_(m), 1, 3) = <<"framectrl", "duration", "addr1">>
               /\ {"framectrl", "duration", "addr1"} \subseteq DOMAIN m

\* C7: a returned record of a frame that has fields after addr1
C7_Witness ==
    ReturnedRecord /\ Len(present_(m)) > 3 /\ Len(buf) >= 24

\* the first place of x in s
FirstIndex(s, x) == CHOOSE i \in 1..Len(s) : s[i] = x /\ \A j \in 1..(i - 1) : s[j] # x

\* the tags of p outside skip stand in the order in which their values were
\* stored in the record
InDecodeOrder(p, skip) ==
    \A i, j \in 1..Len(p) :
        (/\ i < j
         /\ p[i] # p[j]
         /\ {p[i], p[j]} \cap skip = {}
         /\ {p[i], p[j]} \subseteq Range(decoded))
        => FirstIndex(decoded, p[i]) < FirstIndex(decoded, p[j])

\* C8 as stated: present lists the tags in the order in which their values
\* were decoded, fcs included
C8_PresentInDecodeOrder ==
    InDecodeOrder(present_(m), {})

\* C8: the tags of present other than fcs stand in the order in which their
\* values were decoded, and fcs, decoded in the header step, is the last tag
\* of a returned record that has it
C8_DecodeOrderButFcs ==
    /\ InDecodeOrder(present_(m), {"fcs"})
    /\ (ReturnedRecord /\ "fcs" \in Range(present_(m))) =>
           /\ present_(m)[Len(present_(m))] = "fcs"
           /\ "fcs" \notin Range(SubSeq(present_(m), 1, Len(present_(m)) - 1))

\* C8: a returned record with fcs and tags of the type branch and of the
\* encryption step
C8_Witness ==
    /\ ReturnedRecord
    /\ {"fcs", "addr2", "l3-crypt"} \subseteq Range(present_(m))
    /\ decoded[4] = "fcs"

\* the locations of the errors of a record
ErrLocs(d) == {error_(d)[i][1] : i \in 1..Len(error_(d))}

EidLocs == {"mgmt.info-elements.eid-" \o ToString(e) : e \in 0..255}

CryptLocs == {"l3-crypt", "l3-crypt.wep", "l3-crypt.tkip", "l3-crypt.ccmp"}

\* the sub-fields that a ctrl.{subtype-name}.{sub-field} path may end with
CtrlSubFields ==
    {"addr2", "barctrl", "barinfo", "barinfo.tids", "bactrl", "bainfo",
     "bainfo.tids", "carriedframectrl", "htc", "carriedframe"}

\* the dotted paths of the convention for a frame of subtype st; the subtype
\* name of a control frame is taken with or without the ctrl- prefix
ConventionLocs(st) ==
    {"mgmt." \o ST_MGMT_TYPES[st + 1]}
    \cup {"ctrl." \o ST_CTRL_TYPES[st + 1] \o "." \o sf : sf \in CtrlSubFields}
    \cup {"ctrl.ctrl-" \o ST_CTRL_TYPES[st + 1] \o "." \o sf : sf \in CtrlSubFields}
    \cup {"ctrl.ctrl-wrapper.carriedframectrl",
          "ctrl.ctrl-block-ack-req.barinfo.tids",
          "data.addr4", "data.qos", "mgmt.info-elements"}
    \cup EidLocs \cup CryptLocs

\* C9 as stated: every error location is one of the dotted paths of the
\* convention
C9_ErrLocsInConvention ==
    "framectrl" \in DOMAIN m => ErrLocs(m) \subseteq ConventionLocs(subtype_(m))

\* the locations that the branch of the frame's type and subtype may report
BranchLocs(t, st) ==
    IF t = FT_MGMT
    THEN {"mgmt", "mgmt." \o ST_MGMT_TYPES[st + 1], "mgmt.info-elements"}
         \cup EidLocs
    ELSE IF t = FT_CTRL
    THEN {"ctrl", "ctrl." \o ST_CTRL_TYPES[st + 1]}
         \cup {"ctrl.ctrl-block-ack-req." \o sf :
                 sf \in {"addr2", "barctrl", "barinfo", "barinfo.tids"}}
         \cup {"ctrl.ctrl-block-ack." \o sf :
                 sf \in {"addr2", "bactrl", "bainfo", "bainfo.tids"}}
         \cup {"ctrl.ctrl-wrapper." \o sf :
                 sf \in {"carriedframectrl", "htc", "carriedframe"}}
    ELSE IF t = FT_DATA
    THEN {"data", "data.addr4", "data.qos"}
    ELSE {"framectrl.type"}

\* C9: every error location is one of the paths of the convention or one of
\* the paths the code adds to it: the bare type name (mgmt, ctrl, data),
\* framectrl.type, ctrl.{subtype-name} without a sub-field, and the
\* sub-fields of ctrl-block-ack-req, ctrl-block-ack and ctrl-wrapper
C9_ErrLocsEmitted ==
    "framectrl" \in DOMAIN m =>
        ErrLocs(m) \subseteq BranchLocs(type_(m), subtype_(m)) \cup CryptLocs

\* C9: a returned record with an error of the type branch and an error of
\* the encryption step
C9_Witness ==
    /\ ReturnedRecord
    /\ "l3-crypt" \in ErrLocs(m)
    /\ ErrLocs(m) \ CryptLocs # {}

\* C10: no step of parse lowers offset, and a step whose field read fails
\* leaves offset as it was
C10_OffsetMonotone ==
    [][/\ offset_(m') >= offset_(m)
       /\ readfail' => offset_(m') = offset_(m)]_vars

\* C10: a field read has failed after the offset moved past the header
C10_Witness ==
    readfail /\ offset_(m) > 10 /\ pc # "hung"

----------------------------------------------------------------------------
(* Properties of _duration_ *)

\* the decoding of the duration/id field as the convention gives it
DurationExpected(v) ==
    IF v < 32768 THEN [type |-> "vcs", dur |-> v % 32768]
    ELSE IF v < 49152
    THEN IF v = 32768 THEN [type |-> "cfp"] ELSE [type |-> "None", dur |-> "rsrv"]
    ELSE IF v % 8192 <= 2007 THEN [type |-> "aid", aid |-> v % 8192]
    ELSE [type |-> "None", dur |-> "rsrv"]

C12_AidNeverZero ==
    pc = "duration_done" =>
        /\ m["duration"].type = "aid" => m["duration"].aid \in 1..2007
        /\ m["duration"].type = "vcs" => m["duration"].dur \in 0..32767

----------------------------------------------------------------------------
(* Properties of the encryption step *)

\* four octets can be unpacked at the cursor
FourReadable == ~struct_error(<<1, 1, 1, 1>>, f, offset_(m))

\* the four octets at the cursor
CursorOctets == struct_unpack_from(<<1, 1, 1, 1>>, f, offset_(m))

\* the encryption type that the convention gives to the octets b0..b3
CryptExpected(bs) ==
    IF (bs[4] \div 32) % 2 = 0 THEN "wep"
    ELSE LET x == bs[1] % 128
             seed == IF (x \div 32) % 2 = 1 THEN x ELSE x + 32
         IN  IF seed = bs[2] THEN "tkip" ELSE "ccmp"

\* the decoders that ran in a step from record d0 to record d1: a decoder
\* leaves either its l3-crypt value or an error under its own location
DecodersInvoked(d0, d1) ==
    {t \in {"wep", "tkip", "ccmp"} :
        \/ "l3-crypt" \in DOMAIN d1 /\ d1["l3-crypt"].type = t
        \/ /\ Len(error_(d1)) > Len(error_(d0))
           /\ error_(d1)[Len(error_(d1))][1] = "l3-crypt." \o t}

\* C13: when four octets b0..b3 are readable at the cursor the encryption
\* step invokes exactly one decoder, and it is WEP if b3 & 0x20 = 0,
\* otherwise TKIP if ((b0 | 0x20) & 0x7F) = b1, otherwise CCMP
C13_CryptChoice ==
    [][(pc = "crypt" /\ FourReadable) =>
           DecodersInvoked(m, m') = {CryptExpected(CursorOctets)}]_vars

\* C13: TKIP has been chosen for octets in which b0 differs from b1
C13_Witness ==
    /\ pc \in {"finish", "returned"}
    /\ "l3-crypt" \in DOMAIN m
    /\ m["l3-crypt"].type = "tkip"
    /\ m["l3-crypt"].iv.tsc1 # m["l3-crypt"].iv.wepseed

\* what a successful decoder of type t adds to offset and to stripped
CryptDelta(t) ==
    IF t = "wep" THEN [offset |-> 4, stripped |-> 4]
    ELSE IF t = "tkip" THEN [offset |-> 8, stripped |-> 12]
    ELSE [offset |-> 8, stripped |-> 8]

\* the tags of p from place i on
TagsFrom(p, i) == {p[k] : k \in i..Len(p)}

\* C14: an encryption step that stores l3-crypt adds 4 and 4 (WEP), 8 and 12
\* (TKIP) or 8 and 8 (CCMP) to offset and stripped and appends l3-crypt to
\* present; in the returned record l3-crypt stands once in present and only
\* fcs comes after it
C14_CryptCounters ==
    /\ [][(pc = "crypt" /\ "l3-crypt" \in DOMAIN m') =>
             LET dl == CryptDelta(m'["l3-crypt"].type)
             IN  /\ offset_(m') = offset_(m) + dl.offset
                 /\ stripped_(m') = stripped_(m) + dl.stripped
                 /\ "l3-crypt" \notin Range(present_(m))
                 /\ present_(m') = Append(present_(m), "l3-crypt")]_vars
    /\ [](ReturnedRecord /\ "l3-crypt" \in DOMAIN m =>
             \E i \in 1..Len(present_(m)) :
                 /\ present_(m)[i] = "l3-crypt"
                 /\ "l3-crypt" \notin TagsFrom(present_(m), i + 1)
                 /\ TagsFrom(present_(m), i + 1) \subseteq {"fcs"}
                 /\ \A k \in 1..(i - 1) : present_(m)[k] # "l3-crypt")

\* C14: a returned record of a qos-data frame with fcs whose TKIP header was
\* decoded
C14_Witness ==
    /\ ReturnedRecord
    /\ "l3-crypt" \in DOMAIN m
    /\ m["l3-crypt"].type = "tkip"
    /\ {"qos", "l3-crypt", "fcs"} \subseteq Range(present_(m))

\* the encryption step has too few octets: fewer than 4 at the cursor, or
\* fewer than the 8 of the TKIP or CCMP header
CryptShort ==
    \/ ~FourReadable
    \/ /\ CryptExpected(CursorOctets) \in {"tkip", "ccmp"}
       /\ struct_error(<<1, 1, 1, 1, 1, 1, 1, 1>>, f, offset_(m))

\* C15: an encryption step with too few octets appends one error under
\* l3-crypt or l3-crypt.wep|tkip|ccmp, leaves offset, stripped and present
\* as they were, stores no l3-crypt and lets parse go on to return
C15_CryptFailure ==
    [][(pc = "crypt" /\ CryptShort) =>
           /\ Len(error_(m')) = Len(error_(m)) + 1
           /\ error_(m')[Len(error_(m'))][1] \in CryptLocs
           /\ offset_(m') = offset_(m)
           /\ stripped_(m') = stripped_(m)
           /\ present_(m') = present_(m)
           /\ "l3-crypt" \notin DOMAIN m'
           /\ pc' = "finish"]_vars

----------------------------------------------------------------------------
(* Properties of the management branch *)

\* the element at the cursor is cut: its header can be read and its elen is
\* more than the octets that remain in the working buffer
IeCut ==
    /\ ~struct_error(<<1, 1>>, f, offset_(m))
    /\ offset_(m) + 2 + struct_unpack_from(<<1, 1>>, f, offset_(m))[2] > Len(f)

\* C16: the loop iteration that meets a cut element appends an error under
\* mgmt.info-elements, keeps the tags decoded so far in present and lets
\* parse go on to return
C16_CutElementReported ==
    [][(pc = "mgmt_ie" /\ IeCut) =>
           /\ Len(error_(m')) = Len(error_(m)) + 1
           /\ error_(m')[Len(error_(m'))][1] \in {"mgmt.info-elements"} \cup EidLocs
           /\ present_(m') = present_(m)
           /\ pc' \in {"crypt", "finish"}]_vars

----------------------------------------------------------------------------
(* Properties of frames that end with the mandatory header *)

\* the frame has fields after addr1: everything but a CTS or an ACK
NeedsMoreOctets(d) ==
    \/ type_(d) \in {FT_MGMT, FT_DATA}
    \/ type_(d) = FT_CTRL
       /\ subtype_(d) \in {ST_CTRL_WRAPPER, ST_CTRL_BLOCK_ACK_REQ,
                            ST_CTRL_BLOCK_ACK, ST_CTRL_PSPOLL, ST_CTRL_RTS,
                            ST_CTRL_CFEND, ST_CTRL_CFEND_CFACK}
    \/ flags_(d).pf = 1

\* C17: for a buffer of exactly 10 octets without fcs parse returns a record
\* with present = [framectrl, duration, addr1], offset 10 and stripped 0; err
\* is empty for a CTS or ACK with pf clear and not empty when the type
\* branch or the encryption step needs more octets
C17_HeaderOnly ==
    (Len(buf) = 10 /\ ~hasFCS) =>
        /\ pc \notin {"raised", "hung"}
        /\ pc = "returned" =>
               /\ present_(m) = <<"framectrl", "duration", "addr1">>
               /\ offset_(m) = 10
               /\ stripped_(m) = 0
               /\ (/\ type_(m) = FT_CTRL
                   /\ subtype_(m) \in {ST_CTRL_CTS, ST_CTRL_ACK}
                   /\ flags_(m).pf = 0) => error_(m) = <<>>
               /\ NeedsMoreOctets(m) => error_(m) # <<>>

----------------------------------------------------------------------------
(* Properties of the data branch *)

\* the octets of the header of the data frame of record d
DataHeaderLen(d) ==
    24 + (IF flags_(d).td = 1 /\ flags_(d).fd = 1 THEN 6 ELSE 0)
       + (IF subtype_(d) >= 8 THEN 2 ELSE 0)

\* the tags of the data frame of record d when everything can be read
DataTags(d) ==
    <<"framectrl", "duration", "addr1", "addr2", "addr3", "seqctrl">>
    \o (IF flags_(d).td = 1 /\ flags_(d).fd = 1 THEN <<"addr4">> ELSE <<>>)
    \o (IF subtype_(d) \in 8..15 THEN <<"qos">> ELSE <<>>)
    \o (IF hasFCS THEN <<"fcs">> ELSE <<>>)

\* C18: for a returned data frame with pf clear whose working buffer holds
\* its whole header, present is framectrl, duration, addr1, addr2, addr3,
\* seqctrl, addr4 iff td and fd, qos iff subtype in 8..15, fcs iff has_fcs;
\* offset is 24 + 6*[td and fd] + 2*[subtype >= 8]; htc is not read
C18_DataHeader ==
    (/\ ReturnedRecord
     /\ type_(m) = FT_DATA
     /\ flags_(m).pf = 0
     /\ Len(f) >= DataHeaderLen(m)) =>
        /\ present_(m) = DataTags(m)
        /\ offset_(m) = DataHeaderLen(m)
        /\ "htc" \notin DOMAIN m
        /\ "htc" \notin Range(decoded)

\* C18: a returned qos data frame with four addresses and fcs
C18_Witness ==
    /\ ReturnedRecord
    /\ type_(m) = FT_DATA
    /\ flags_(m).pf = 0
    /\ subtype_(m) = 8
    /\ {"addr4", "qos", "fcs"} \subseteq Range(present_(m))
    /\ Len(f) >= DataHeaderLen(m)

----------------------------------------------------------------------------
(* Properties of the fixed parameters *)

\* the size of the fixed block of a management subtype
FixedLen(st) ==
    IF st = 0 THEN 4
    ELSE IF st \in {1, 3, 11} THEN 6
    ELSE IF st \in {2, 6} THEN 10
    ELSE IF st \in {5, 8} THEN 12
    ELSE IF st \in {10, 12, 13, 14} THEN 2
    ELSE 0

\* parse stands right after the fixed parameters of a management frame: for
\* an action frame, before the rest of the frame is taken as action-el
AfterFixed ==
    \/ pc = "mgmt_action"
    \/ pc = "mgmt_ies" /\ subtype_(m) \notin {ST_MGMT_ACTION, ST_MGMT_ACTION_NOACK}

\* C19: right after the fixed parameters of a management frame whose working
\* buffer holds 24 + n octets, n the size of the subtype's fixed block,
\* offset is 24 + n, fixed-params is in present exactly if n > 0, and the aid
\* of assoc-resp and reassoc-resp is the low 14 bits of the field
C19_FixedOffsets ==
    (AfterFixed /\ Len(f) >= 24 + FixedLen(subtype_(m))) =>
        /\ offset_(m) = 24 + FixedLen(subtype_(m))
        /\ ("fixed-params" \in Range(present_(m))) <=> (FixedLen(subtype_(m)) > 0)
        /\ subtype_(m) \in {1, 3} =>
               m["fixed-params"].aid = FieldAt(f, 28, 2) % 16384

\* C19: the fixed parameters of an association response whose aid field has
\* one of its two high bits set have been decoded
C19_Witness ==
    /\ AfterFixed
    /\ subtype_(m) = 1
    /\ Len(f) >= 30
    /\ FieldAt(f, 28, 2) >= 16384

----------------------------------------------------------------------------
(* Properties of the block ack branches *)

\* the type that the pair (multi-tid, compressed-bm) of control record c
\* stands for
BaTypeExpected(c) ==
    IF c.multitid = 0
    THEN IF c.compressedbm = 0 THEN "basic" ELSE "compressed"
    ELSE IF c.compressedbm = 0 THEN "reserved" ELSE "multi-tid"

\* C20: in a returned block ack request or block ack whose control field is
\* in present, the control record has the type that its multi-tid and
\* compressed-bm bits stand for
C20_BaTypeDerived ==
    (ReturnedRecord /\ type_(m) = FT_CTRL) =>
        /\ (subtype_(m) = ST_CTRL_BLOCK_ACK_REQ /\ "barctrl" \in Range(present_(m)))
               => m["barctrl"].type = BaTypeExpected(m["barctrl"])
        /\ (subtype_(m) = ST_CTRL_BLOCK_ACK /\ "bactrl" \in Range(present_(m)))
               => m["bactrl"].type = BaTypeExpected(m["bactrl"])

\* ---------------------------------------------------------------------
\* C21: info-elements of a management frame

\* the element ids of the stored elements
IeEids(ies) == {ies[i][1] : i \in 1..Len(ies)}

\* the payloads stored for element id e, in order of appearance
PayloadsOf(ies, e) ==
    LET s == SelectSeq(ies, LAMBDA p : p[1] = e)
    IN  [i \in 1..Len(s) |-> s[i][2]]

\* C21: in a returned management record info-elements maps every element
\* id that occurred to the list of its decoded payloads in order of
\* appearance
C21_IesByEid ==
    (ReturnedRecord /\ type_(m) = FT_MGMT /\ "info-elements" \in DOMAIN m)
        => LET ies == m["info-elements"]
           IN  /\ DOMAIN ies = IeEids(ies)
               /\ \A e \in IeEids(ies) : ies[e] = PayloadsOf(ies, e)

\* ---------------------------------------------------------------------
\* C22: the packet number of a ccmp header

\* the octet of the working buffer at index i, counted from 0
OctetAt(i) == f[i + 1]

\* C22: when a ccmp header of 8 octets lay at the cursor the decoded
\* pn0..pn5 are the octets at cursor+0, +1, +4, +5, +6 and +7
C22_CcmpPn ==
    ( /\ "l3-crypt" \in DOMAIN m
      /\ m["l3-crypt"].type = "ccmp"
      /\ offset_(m) <= Len(f) )
        => LET c == offset_(m) - _CCMP_IV_LEN_
               l == m["l3-crypt"]
           IN  /\ l.pn0 = OctetAt(c)
               /\ l.pn1 = OctetAt(c + 1)
               /\ l.pn2 = OctetAt(c + 4)
               /\ l.pn3 = OctetAt(c + 5)
               /\ l.pn4 = OctetAt(c + 6)
               /\ l.pn5 = OctetAt(c + 7)

----------------------------------------------------------------------------
(* parse applied to the control frames of 16 octets that carry addr2 *)

\* a ps-poll frame with the duration octets d0, d1
PsPollFrame(d0, d1) ==
    <<164, 0, d0, d1, 0, 31, 63, 162, 177, 195, 0, 31, 63, 162, 177, 196>>

\* second duration octet: bits 15 and 14 clear, bit 15, both, both with
\* high order bits of the aid
DurHighVals == {0, 128, 192, 199}

InitPsPoll ==
    /\ buf \in {PsPollFrame(d0, d1) : d0 \in Octets, d1 \in DurHighVals}
    /\ hasFCS \in BOOLEAN
    /\ f = buf
    /\ m = <<>>
    /\ pc = "start"
    /\ exc = [type |-> "none", msg |-> ""]
    /\ ieiter = 0
    /\ tidx = 0
    /\ decoded = <<>>
    /\ readfail = FALSE

\* the steps of parse that a ps-poll frame without pf goes through
NextPsPoll ==
    \/ parse_header
    \/ _parsectrl_
    \/ parse_finish

SpecPsPoll == InitPsPoll /\ [][NextPsPoll]_vars

\* the frame A4 00 2A 00 00 1F 3F A2 B1 C3 00 1F 3F A2 B1 C4 parsed
\* without fcs
PsPollExample ==
    /\ buf = PsPollFrame(42, 0)
    /\ ~hasFCS
    /\ pc = "returned"

\* what the example yields apart from the duration
PsPollRest ==
    /\ type_(m) = FT_CTRL
    /\ subtype_(m) = ST_CTRL_PSPOLL
    /\ m["addr1"] = "00:1f:3f:a2:b1:c3"
    /\ "addr2" \in Range(present_(m))
    /\ m["addr2"] = "00:1f:3f:a2:b1:c4"
    /\ error_(m) = <<>>

\* C23 as stated: the example frame yields a ps-poll record whose duration
\* is of variant aid with aid = 42
C23_PsPollAid ==
    PsPollExample
        => /\ PsPollRest
           /\ m["duration"].type = "aid"
           /\ m["duration"].aid = 42

\* C23: the example frame yields type ctrl, subtype ps-poll, both
\* addresses, an empty err and, bit 15 of the duration 0x002A being clear,
\* a duration of variant vcs with dur = 42
C23_PsPollVcs ==
    PsPollExample
        => /\ PsPollRest
           /\ m["duration"] = [type |-> "vcs", dur |-> 42]

\* C23: the example frame has been parsed
C23_Witness == PsPollExample /\ "addr2" \in DOMAIN m

----------------------------------------------------------------------------
(* sushi.bento: the radiotap header, then parse on what follows it *)

\* a radiotap header without fields, one with a flags field in which the
\* fcs bit is clear, one in which it is set
RtapHeaders ==
    {<<0, 0, 8, 0, 0, 0, 0, 0>>,
     <<0, 0, 9, 0, 2, 0, 0, 0, 0>>,
     <<0, 0, 9, 0, 2, 0, 0, 0, 16>>}

\* the size property of the radiotap record: the length field of the header
rtap_size(raw) == raw[3] + 256 * raw[4]

\* 'fcs' in dR.flags: the flags field is present and its fcs bit is set
rtap_fcs(raw) == BitAnd(raw[5], 2) # 0 /\ BitAnd(raw[9], 16) # 0

BentoOctets == {0, 32, 255}

\* the frames after the radiotap header: data frames as in CryptFrame with
\* pf clear or set, an empty one and one too short for the header
BentoMpdus ==
    {[CryptFrame(fc0, b0, b1, b3, t, n) EXCEPT ![2] = fc1] :
        fc0 \in {8, 136}, fc1 \in {0, 64}, b0 \in BentoOctets,
        b1 \in BentoOctets, b3 \in BentoOctets, t \in {0, 255},
        n \in 0..MaxBody}
    \cup {<<>>, <<8, 0>>}

InitBento ==
    /\ buf \in {h \o b : h \in RtapHeaders, b \in BentoMpdus}
    /\ hasFCS = FALSE
    /\ f = buf
    /\ m = <<>>
    /\ pc = "bento"
    /\ exc = [type |-> "none", msg |-> ""]
    /\ ieiter = 0
    /\ tidx = 0
    /\ decoded = <<>>
    /\ readfail = FALSE

\* sushi.py lines 49-50: dR = rtap.parse(f) and the arguments of mpdu.parse
bento_rtap ==
    /\ pc = "bento"
    /\ f' = SliceFrom(buf, rtap_size(buf))
    /\ hasFCS' = rtap_fcs(buf)
    /\ pc' = "start"
    /\ UNCHANGED <<buf, m, exc, ieiter, tidx, decoded, readfail>>

\* f[lo:-n] for 0 <= lo, 0 <= n: -0 is 0, so the slice is empty for n = 0
SliceButLast(b, lo, n) ==
    IF n = 0 THEN Slice(b, lo, 0) ELSE SubSeq(b, lo + 1, Len(b) - n)

\* sushi.py lines 51-55: the tuple returned; dM stays the empty record when
\* parse raised
bento_return ==
    /\ pc \in {"returned", "raised"}
    /\ LET dM == IF pc = "raised" THEN <<>> ELSE m
           size == rtap_size(buf)
       IN  m' = [dR |-> [size |-> size, fcs |-> rtap_fcs(buf)],
                 dM |-> dM,
                 remaining |-> SliceButLast(buf, size + offset_(dM),
                                            stripped_(dM)),
                 err |-> exc]
    /\ pc' = "bento_done"
    /\ UNCHANGED <<buf, hasFCS, f, exc, ieiter, tidx, decoded, readfail>>

NextBento ==
    \/ bento_rtap
    \/ NextCrypt
    \/ bento_return

SpecBento == InitBento /\ [][NextBento]_vars

\* C24: the third component of the tuple of bento is the bytes of the frame
\* from index radiotap size + offset up to but excluding the last stripped
\* bytes, for every value of stripped
C24_BentoRemaining ==
    pc = "bento_done"
        => m.remaining
             = SubSeq(buf, m.dR.size + offset_(m.dM) + 1,
                      Len(buf) - stripped_(m.dM))

----------------------------------------------------------------------------
(* _parseiesubel_ applied to the payload of an information element *)

MaxSubels == 3

MaxSubLen == 2

\* one sub-element: id, length and a payload of that length
Subels ==
    {<<sid, n>> \o [i \in 1..n |-> 16 * sid + i] :
        sid \in {1, 2}, n \in 0..MaxSubLen}

\* the concatenations of k sub-elements
RECURSIVE SubelConcats(_)
SubelConcats(k) ==
    IF k = 0 THEN {<<>>}
    ELSE {a \o b : a \in Subels, b \in SubelConcats(k - 1)}

\* the arguments and the locals of a call: info is held in f, the
\* sub-decoder is the default _iesubel_ or one that takes (s, sid)
InitSubel ==
    /\ buf \in UNION {SubelConcats(k) : k \in 0..MaxSubels} \cup {<<1>>}
    /\ hasFCS = FALSE
    /\ f = buf
    /\ \E d \in {"_iesubel_", "subdecoder"} :
           m = [f |-> d, opt |-> <<>>, offset |-> 0]
    /\ pc = "subel"
    /\ exc = [type |-> "none", msg |-> ""]
    /\ ieiter = 0
    /\ tidx = 0
    /\ decoded = <<>>
    /\ readfail = FALSE

\* _mpdu.py lines 1945-1949: the test of the loop looks at len(info), which
\* no iteration changes; _iesubel_ takes one argument and is called with two
_parseiesubel_ ==
    /\ pc = "subel"
    /\ IF Len(f) >= 2
       THEN IF struct_error(<<1, 1>>, f, m.offset)
            THEN /\ exc' = [type |-> "struct.error", msg |-> "unpack_from"]
                 /\ pc' = "raised"
                 /\ m' = m
            ELSE IF m.f = "_iesubel_"
            THEN /\ exc' = [type |-> "TypeError", msg |-> "_iesubel_() takes exactly 1 argument (2 given)"]
                 /\ pc' = "raised"
                 /\ m' = m
            ELSE LET v == struct_unpack_from(<<1, 1>>, f, m.offset)
                     sid == v[1]
                     slen == v[2]
                 IN  /\ m' = [m EXCEPT
                                !.opt = Append(@, <<sid, Slice(f, m.offset + 2,
                                                     m.offset + 2 + slen)>>),
                                !.offset = @ + 2 + slen]
                     /\ pc' = "subel"
                     /\ exc' = exc
       ELSE /\ pc' = "returned"
            /\ m' = m
            /\ exc' = exc
    /\ UNCHANGED <<buf, hasFCS, f, ieiter, tidx, decoded, readfail>>

NextSubel == _parseiesubel_

SpecSubel == InitSubel /\ [][NextSubel]_vars

\* info is a concatenation of well-formed sub-elements
RECURSIVE SubelWellFormed(_)
SubelWellFormed(info) ==
    IF Len(info) = 0 THEN TRUE
    ELSE /\ Len(info) >= 2
         /\ Len(info) >= 2 + info[2]
         /\ SubelWellFormed(SubSeq(info, 3 + info[2], Len(info)))

\* the pairs (sid, payload) of a well-formed info, in wire order
RECURSIVE SubelPairs(_)
SubelPairs(info) ==
    IF Len(info) = 0 THEN <<>>
    ELSE <<<<info[1], SubSeq(info, 3, 2 + info[2])>>>>
         \o SubelPairs(SubSeq(info, 3 + info[2], Len(info)))

\* C25: on a concatenation of one or more well-formed sub-elements the
\* walker does not raise, and what it returns is the pairs (sid, payload)
\* in wire order
C25_SubelsReturned ==
    (SubelWellFormed(f) /\ Len(f) >= 2)
        => /\ pc # "raised"
           /\ pc = "returned" => m.opt = SubelPairs(f)

\* ---------------------------------------------------------------------
\* C26: the reserved variant of block ack and block ack request

\* the control field k holds multi-tid = 1 and compressed-bm = 0
ReservedVariant(d, k) ==
    /\ k \in DOMAIN d
    /\ d[k].multitid = 1
    /\ d[k].compressedbm = 0

\* the step stored the rest of the working buffer under info and left the
\* offset at the end of the working buffer
RestUnparsed(d0, d1, info) ==
    /\ info \in DOMAIN d1
    /\ d1[info] = [unparsed |-> SliceFrom(f, offset_(d0))]
    /\ offset_(d1) = Len(f)

\* C26: for the reserved variant block ack and block ack request both
\* store the rest of the working buffer as unparsed of the info field and
\* end with offset at the end of the working buffer
C26_ReservedAlike ==
    [][ /\ (pc = "bar_info" /\ ReservedVariant(m, "barctrl"))
            => RestUnparsed(m, m', "barinfo")
        /\ (pc = "ba_info" /\ ReservedVariant(m, "bactrl"))
            => RestUnparsed(m, m', "bainfo") ]_vars

\* ---------------------------------------------------------------------
\* C27: the tags of the type branch and their predecessors

\* some tag of later is in present only together with all tags of earlier
TogetherWith(later, earlier) ==
    (later \cap Range(present_(m)) # {}) => earlier \subseteq Range(present_(m))

\* C27: in a returned record a tag of the type branch is in present only if
\* the tags of the fields that precede it on the wire are: addr4, qos,
\* fixed-params and info-elements only with addr2, addr3 and seqctrl,
\* barctrl and bactrl only with addr2
C27_PrefixClosed ==
    ReturnedRecord
        => /\ TogetherWith({"addr4", "qos"}, {"addr2", "addr3", "seqctrl"})
           /\ TogetherWith({"fixed-params", "info-elements"},
                           {"addr2", "addr3", "seqctrl"})
           /\ TogetherWith({"barctrl", "bactrl"}, {"addr2"})

\* ---------------------------------------------------------------------
\* C28: no tag twice in present

\* no element of the sequence s occurs at two indices
NoDuplicates(s) == \A i, j \in 1..Len(s) : s[i] = s[j] => i = j

\* C28: in a returned record present contains no tag more than once
C28_PresentNoDuplicates == ReturnedRecord => NoDuplicates(present_(m))

\* ---------------------------------------------------------------------
\* C29: the encryption step of a protected management frame

\* the step from d0 to d1 appended one err entry, with location l3-crypt
OneCryptErr(d0, d1) ==
    /\ Len(error_(d1)) = Len(error_(d0)) + 1
    /\ SubSeq(error_(d1), 1, Len(error_(d0))) = error_(d0)
    /\ error_(d1)[Len(error_(d1))][1] = "l3-crypt"

\* the number of err entries of d with location loc
ErrCount(d, loc) == Cardinality({i \in 1..Len(error_(d)) : error_(d)[i][1] = loc})

\* C29: for a management frame with pf set the encryption step starts
\* with fewer than 4 bytes between offset and the end of the working
\* buffer, appends exactly one err entry with location l3-crypt and leaves
\* offset and stripped unchanged, so that l3-crypt is never populated in
\* the returned record
C29_MgmtCryptSkipped ==
    /\ [][(pc = "crypt" /\ type_(m) = FT_MGMT)
             => /\ Len(f) - offset_(m) < 4
                /\ OneCryptErr(m, m')
                /\ offset_(m') = offset_(m)
                /\ stripped_(m') = stripped_(m)]_vars
    /\ []((ReturnedRecord /\ type_(m) = FT_MGMT /\ flags_(m).pf = 1)
             => /\ "l3-crypt" \notin DOMAIN m
                /\ "l3-crypt" \notin Range(present_(m))
                /\ ErrCount(m, "l3-crypt") = 1)

\* C29: a protected management frame with information elements has been
\* returned after the encryption step recorded its error
C29_Witness ==
    /\ ReturnedRecord
    /\ type_(m) = FT_MGMT
    /\ flags_(m).pf = 1
    /\ "info-elements" \in Range(present_(m))
    /\ Len(m["info-elements"]) > 1
    /\ "l3-crypt" \in ErrLocs(m)

----------------------------------------------------------------------------
(* The bit-field decoders of the header applied to every value of two
   octets *)

\* the value unpacked from the two octets with 'H'
WordValue == FieldAt(buf, 0, 2)

InitBits ==
    /\ buf \in {<<lo, hi>> : lo \in Octets, hi \in Octets}
    /\ hasFCS = FALSE
    /\ f = buf
    /\ m = <<>>
    /\ pc = "bits"
    /\ exc = [type |-> "none", msg |-> ""]
    /\ ieiter = 0
    /\ tidx = 0
    /\ decoded = <<>>
    /\ readfail = FALSE

\* lines 270-274: the frame control of the two octets
bits_framectrl ==
    /\ pc = "bits"
    /\ m' = [framectrl |-> [vers |-> leastx(2, buf[1]),
                            type |-> midx(2, 2, buf[1]),
                            subtype |-> mostx(4, buf[1]),
                            flags |-> _fcflags_(buf[2])]]
    /\ pc' = "framectrl_done"
    /\ decoded' = <<"framectrl">>
    /\ UNCHANGED <<buf, hasFCS, f, exc, ieiter, tidx, readfail>>

\* m['seqctrl'] = _seqctrl_(v)
bits_seqctrl ==
    /\ pc = "bits"
    /\ m' = [seqctrl |-> _seqctrl_(WordValue)]
    /\ pc' = "seqctrl_done"
    /\ decoded' = <<"seqctrl">>
    /\ UNCHANGED <<buf, hasFCS, f, exc, ieiter, tidx, readfail>>

\* m['qos'] = _qosctrl_(v), v unpacked with 'BB'
bits_qosctrl ==
    /\ pc = "bits"
    /\ m' = [qos |-> _qosctrl_(buf)]
    /\ pc' = "qos_done"
    /\ decoded' = <<"qos">>
    /\ UNCHANGED <<buf, hasFCS, f, exc, ieiter, tidx, readfail>>

\* m['bactrl'] = _bactrl_(v)
bits_bactrl ==
    /\ pc = "bits"
    /\ m' = [bactrl |-> _bactrl_(WordValue)]
    /\ pc' = "bactrl_done"
    /\ decoded' = <<"bactrl">>
    /\ UNCHANGED <<buf, hasFCS, f, exc, ieiter, tidx, readfail>>

NextBits ==
    \/ bits_framectrl
    \/ bits_seqctrl
    \/ bits_qosctrl
    \/ bits_bactrl

SpecBits == InitBits /\ [][NextBits]_vars

\* C30: the sub-fields of the frame control octet, of the sequence control,
\* of the low octet of the qos control and of the ba/bar control lie inside
\* their bit widths and, put back at their bit positions, give the decoded
\* value again
C30_BitFieldsLossless ==
    /\ pc = "framectrl_done"
         => LET fc == m.framectrl
            IN  /\ fc.vers \in 0..3 /\ fc.type \in 0..3 /\ fc.subtype \in 0..15
                /\ fc.vers + 4 * fc.type + 16 * fc.subtype = buf[1]
    /\ pc = "seqctrl_done"
         => LET sc == m.seqctrl
            IN  /\ sc.fragno \in 0..15 /\ sc.seqno \in 0..4095
                /\ sc.fragno + 16 * sc.seqno = WordValue
    /\ pc = "qos_done"
         => LET q == m.qos
            IN  /\ q.tid \in 0..15 /\ q.eosp \in 0..1
                /\ q.ackpolicy \in 0..3 /\ q.amsdu \in 0..1
                /\ q.tid + 16 * q.eosp + 32 * q.ackpolicy + 128 * q.amsdu = buf[1]
    /\ pc = "bactrl_done"
         => LET bc == m.bactrl
            IN  /\ bc.ackpolicy \in 0..1 /\ bc.multitid \in 0..1
                /\ bc.compressedbm \in 0..1
                /\ bc.rsrv \in 0..511 /\ bc.tidinfo \in 0..15
                /\ bc.ackpolicy + 2 * bc.multitid + 4 * bc.compressedbm
                     + 8 * bc.rsrv + 4096 * bc.tidinfo = WordValue

\* C30: a ba/bar control value with bits set in every sub-field has been
\* decoded
C30_Witness ==
    /\ pc = "bactrl_done"
    /\ WordValue = 46735
    /\ m.bactrl.rsrv = 209
    /\ m.bactrl.tidinfo = 11

====
